---- MODULE Spec2Model ----
(***************************************************************************)
(* Model of the batch sales ETL pipeline: etl_pipeline/transform.py, the   *)
(* warehouse load of etl_pipeline/load.py and the read of dashboard/app.py. *)
(*                                                                         *)
(* A pandas DataFrame is a record                                          *)
(*   [columns : set of column names, dtypes : column -> dtype kind,        *)
(*    index : sequence of row labels, rows : sequence of column -> cell]   *)
(* A cell is a record [t, n, d, s]: t is the kind of the cell ("nan" for   *)
(* NaN/NaT/None, "num" for the exact rational n/d, "str" for the string s, *)
(* "date" for the calendar day n counted from 1970-01-01, "bool" for n in  *)
(* {0,1}).  Strings, column names included, are sequences of one-character *)
(* strings, so that strip/lower/replace/concatenation are computed.        *)
(* Floating point numbers are modelled by exact rationals.                 *)
(***************************************************************************)
EXTENDS Integers, Sequences, FiniteSets, TLC

VARIABLES pc, df_local, df_api, df_all, pk_col, od_col, sd_col,
          numeric_cols_std, validation_report, stdout, raised, args, ret,
          db, dim_frames, snapshot, run

vars == <<pc, df_local, df_api, df_all, pk_col, od_col, sd_col,
          numeric_cols_std, validation_report, stdout, raised, args, ret,
          db, dim_frames, snapshot, run>>

\* the state of the warehouse, of the loader and of the dashboard reader
loadvars == <<db, dim_frames, snapshot, run>>

(***************************************************************************)
(* Bounds of the explored inputs.                                          *)
(***************************************************************************)
MaxLocal == 2
MaxApi == 1
MaxIqrRows == 4
MaxQcRows == 2

(***************************************************************************)
(* Cells.                                                                  *)
(***************************************************************************)
NaN == [t |-> "nan", n |-> 0, d |-> 1, s |-> <<>>]
Str(s) == [t |-> "str", n |-> 0, d |-> 1, s |-> s]
Bool(b) == [t |-> "bool", n |-> IF b THEN 1 ELSE 0, d |-> 1, s |-> <<>>]
DateCell(days) == [t |-> "date", n |-> days, d |-> 1, s |-> <<>>]

Abs(x) == IF x < 0 THEN -x ELSE x

RECURSIVE GCD(_, _)
GCD(a, b) == IF b = 0 THEN a ELSE GCD(b, a % b)

\* the rational n/d in lowest terms, d > 0
Rat(n, d) ==
    LET sn == IF d < 0 THEN -n ELSE n
        sd == Abs(d)
        g == GCD(Abs(sn), sd)
    IN  [t |-> "num", n |-> sn \div g, d |-> sd \div g, s |-> <<>>]
Num(n) == Rat(n, 1)

IsNull(v) == v.t = "nan"
NotNa(v) == v.t # "nan"

VAdd(a, b) == Rat(a.n * b.d + b.n * a.d, a.d * b.d)
VSub(a, b) == Rat(a.n * b.d - b.n * a.d, a.d * b.d)
VMul(a, b) == Rat(a.n * b.n, a.d * b.d)
VLt(a, b) == a.n * b.d < b.n * a.d
VLe(a, b) == a.n * b.d <= b.n * a.d
\* Series / Series: a missing operand gives NaN; a zero divisor gives
\* +-inf (or NaN for 0/0) in IEEE arithmetic, never an exception
Inf == [t |-> "inf", n |-> 1, d |-> 1, s |-> <<>>]
NegInf == [t |-> "inf", n |-> -1, d |-> 1, s |-> <<>>]
VDiv(a, b) ==
    IF IsNull(a) \/ IsNull(b) THEN NaN
    ELSE IF b.n = 0
         THEN (IF a.n = 0 THEN NaN ELSE IF a.n > 0 THEN Inf ELSE NegInf)
         ELSE Rat(a.n * b.d, a.d * b.n)

(***************************************************************************)
(* Strings.                                                                *)
(***************************************************************************)
UpperChars == <<"A","B","C","D","E","F","G","H","I","J","K","L","M",
                "N","O","P","Q","R","S","T","U","V","W","X","Y","Z">>
LowerChars == <<"a","b","c","d","e","f","g","h","i","j","k","l","m",
                "n","o","p","q","r","s","t","u","v","w","x","y","z">>
DigitChars == <<"0","1","2","3","4","5","6","7","8","9">>

IsSpace(c) == c \in {" ", "\t", "\n", "\r"}

LowerChar(c) ==
    IF \E i \in 1..26 : UpperChars[i] = c
    THEN LowerChars[CHOOSE i \in 1..26 : UpperChars[i] = c]
    ELSE c

\* str.lower()
StrLower(s) == [i \in 1..Len(s) |-> LowerChar(s[i])]
\* str.replace(" ", "_")
StrReplaceSpace(s) == [i \in 1..Len(s) |-> IF s[i] = " " THEN "_" ELSE s[i]]
\* str.strip()
StrStrip(s) ==
    LET keep == {i \in 1..Len(s) : ~IsSpace(s[i])}
    IN  IF keep = {} THEN <<>>
        ELSE LET lo == CHOOSE i \in keep : \A j \in keep : i <= j
                 hi == CHOOSE i \in keep : \A j \in keep : j <= i
             IN  SubSeq(s, lo, hi)

\* code point order of the characters that occur in the modelled strings
CharOrder == <<" ", "-", "/", "0","1","2","3","4","5","6","7","8","9",
               "A","B","C","D","E","F","G","H","I","J","K","L","M",
               "N","O","P","Q","R","S","T","U","V","W","X","Y","Z", "_",
               "a","b","c","d","e","f","g","h","i","j","k","l","m",
               "n","o","p","q","r","s","t","u","v","w","x","y","z">>
Ord(c) == CHOOSE i \in 1..Len(CharOrder) : CharOrder[i] = c

RECURSIVE StrLt(_, _)
StrLt(a, b) ==
    IF b = <<>> THEN FALSE
    ELSE IF a = <<>> THEN TRUE
    ELSE IF Head(a) = Head(b) THEN StrLt(Tail(a), Tail(b))
    ELSE Ord(Head(a)) < Ord(Head(b))

Unknown == <<"U","n","k","n","o","w","n">>
NanRepr == <<"n","a","n">>

(***************************************************************************)
(* TransformConfig, column names.                                          *)
(***************************************************************************)
id_col == <<"O","r","d","e","r"," ","I","D">>
order_date_col == <<"O","r","d","e","r"," ","D","a","t","e">>
ship_date_col == <<"S","h","i","p"," ","D","a","t","e">>
UnitsSold == <<"U","n","i","t","s"," ","S","o","l","d">>
UnitPrice == <<"U","n","i","t"," ","P","r","i","c","e">>
UnitCost == <<"U","n","i","t"," ","C","o","s","t">>
TotalRevenue == <<"T","o","t","a","l"," ","R","e","v","e","n","u","e">>
TotalCost == <<"T","o","t","a","l"," ","C","o","s","t">>
TotalProfit == <<"T","o","t","a","l"," ","P","r","o","f","i","t">>
numeric_cols == <<UnitsSold, UnitPrice, UnitCost, TotalRevenue, TotalCost,
                  TotalProfit>>
Region == <<"R","e","g","i","o","n">>
Country == <<"C","o","u","n","t","r","y">>
ItemType == <<"I","t","e","m"," ","T","y","p","e">>
SalesChannel == <<"S","a","l","e","s"," ","C","h","a","n","n","e","l">>
OrderPriority == <<"O","r","d","e","r"," ","P","r","i","o","r","i","t","y">>
categorical_cols == <<Region, Country, ItemType, SalesChannel, OrderPriority>>

\* the name a header gets from standardize_column_names
StdName(c) == StrReplaceSpace(StrLower(StrStrip(c)))
\* the name transform_sales derives from a configured header
CfgName(c) == StrReplaceSpace(StrLower(c))

order_id == <<"o","r","d","e","r","_","i","d">>
region == <<"r","e","g","i","o","n">>
country == <<"c","o","u","n","t","r","y">>
item_type == <<"i","t","e","m","_","t","y","p","e">>
sales_channel == <<"s","a","l","e","s","_","c","h","a","n","n","e","l">>
dim_keep == <<region, country, item_type, sales_channel>>
units_sold == <<"u","n","i","t","s","_","s","o","l","d">>
total_revenue == <<"t","o","t","a","l","_","r","e","v","e","n","u","e">>
total_profit == <<"t","o","t","a","l","_","p","r","o","f","i","t">>
profit_per_unit == <<"p","r","o","f","i","t","_","p","e","r","_","u","n","i","t">>
revenue_per_unit == <<"r","e","v","e","n","u","e","_","p","e","r","_","u","n","i","t">>
profit_margin_ratio == <<"p","r","o","f","i","t","_","m","a","r","g","i","n","_","r","a","t","i","o">>
shipping_days == <<"s","h","i","p","p","i","n","g","_","d","a","y","s">>
order_year == <<"o","r","d","e","r","_","y","e","a","r">>
order_month == <<"o","r","d","e","r","_","m","o","n","t","h">>
NormSuffix == <<"_","n","o","r","m">>

Range(f) == {f[i] : i \in DOMAIN f}
None == <<>>

(***************************************************************************)
(* DataFrames.                                                             *)
(***************************************************************************)
Column(df, c) == [i \in 1..Len(df.rows) |-> df.rows[i][c]]

\* dtype kind pandas infers for a column of cells
InferDtype(cells) ==
    IF \E i \in DOMAIN cells : cells[i].t = "str" THEN "object"
    ELSE IF \E i \in DOMAIN cells : cells[i].t = "date" THEN "datetime"
    ELSE IF cells # <<>> /\ \A i \in DOMAIN cells : cells[i].t = "bool" THEN "bool"
    ELSE "numeric"

\* a frame as read_csv delivers it: default index 0..n-1, inferred dtypes
MkFrame(cols, rows) ==
    [columns |-> cols,
     dtypes |-> [c \in cols |-> InferDtype([i \in 1..Len(rows) |-> rows[i][c]])],
     index |-> [i \in 1..Len(rows) |-> i - 1],
     rows |-> rows]

\* df[mask]: the rows at the given positions, order and labels kept
RECURSIVE Positions(_, _, _)
Positions(n, keep, i) ==
    IF i > n THEN <<>>
    ELSE (IF i \in keep THEN <<i>> ELSE <<>>) \o Positions(n, keep, i + 1)

TakeRows(df, keep) ==
    LET ps == Positions(Len(df.rows), keep, 1)
    IN  [df EXCEPT !.index = [k \in 1..Len(ps) |-> df.index[ps[k]]],
                   !.rows = [k \in 1..Len(ps) |-> df.rows[ps[k]]]]

\* df[c] = cells, with the dtype kind the assignment gives the column
SetColumn(df, c, cells, kind) ==
    [df EXCEPT !.columns = df.columns \cup {c},
               !.dtypes = [x \in df.columns \cup {c} |->
                              IF x = c THEN kind ELSE df.dtypes[x]],
               !.rows = [i \in 1..Len(df.rows) |->
                            [x \in df.columns \cup {c} |->
                               IF x = c THEN cells[i] ELSE df.rows[i][x]]]]

(***************************************************************************)
(* Series statistics (NaN cells are skipped, as pandas does).              *)
(***************************************************************************)
RECURSIVE InsertSorted(_, _)
InsertSorted(x, s) ==
    IF s = <<>> THEN <<x>>
    ELSE IF VLe(x, Head(s)) THEN <<x>> \o s
    ELSE <<Head(s)>> \o InsertSorted(x, Tail(s))

RECURSIVE SortNums(_)
SortNums(s) == IF s = <<>> THEN <<>> ELSE InsertSorted(Head(s), SortNums(Tail(s)))

IsNumCell(v) == v.t = "num"
NonNull(cells) == SelectSeq(cells, IsNumCell)

\* Series.quantile(pn/pd), linear interpolation between order statistics
Quantile(cells, pn, pd) ==
    LET xs == SortNums(NonNull(cells))
        n == Len(xs)
        h == (n - 1) * pn
        lo == h \div pd
        rem == h % pd
    IN  IF n = 0 THEN NaN
        ELSE IF rem = 0 THEN xs[lo + 1]
        ELSE VAdd(xs[lo + 1], VMul(VSub(xs[lo + 2], xs[lo + 1]), Rat(rem, pd)))

\* variant: the lower middle order statistic, without interpolation
Median_lower(cells) ==
    LET xs == SortNums(NonNull(cells))
    IN  IF xs = <<>> THEN NaN ELSE xs[(Len(xs) + 1) \div 2]

\* Series.median()
Median(cells) == Quantile(cells, 1, 2)

SeriesMin(cells) ==
    LET xs == SortNums(NonNull(cells)) IN IF xs = <<>> THEN NaN ELSE xs[1]
SeriesMax(cells) ==
    LET xs == SortNums(NonNull(cells)) IN IF xs = <<>> THEN NaN ELSE xs[Len(xs)]

RECURSIVE SumNums(_)
SumNums(s) == IF s = <<>> THEN Num(0) ELSE VAdd(Head(s), SumNums(Tail(s)))

(***************************************************************************)
(* Dates: pd.to_datetime(errors="coerce") and the .dt accessors.           *)
(* Only the ISO layout YYYY-MM-DD is modelled as parseable; every other    *)
(* string of the explored inputs is one pandas cannot parse either.        *)
(***************************************************************************)
IsDigit(c) == \E i \in 1..10 : DigitChars[i] = c
DigitVal(c) == (CHOOSE i \in 1..10 : DigitChars[i] = c) - 1

DaysFromCivil(y, m, d) ==
    LET y2 == IF m <= 2 THEN y - 1 ELSE y
        era == y2 \div 400
        yoe == y2 - era * 400
        mp == IF m > 2 THEN m - 3 ELSE m + 9
        doy == (153 * mp + 2) \div 5 + d - 1
        doe == yoe * 365 + yoe \div 4 - yoe \div 100 + doy
    IN  era * 146097 + doe - 719468

CivilFromDays(z0) ==
    LET z == z0 + 719468
        era == z \div 146097
        doe == z - era * 146097
        yoe == (doe - doe \div 1460 + doe \div 36524 - doe \div 146096) \div 365
        doy == doe - (365 * yoe + yoe \div 4 - yoe \div 100)
        mp == (5 * doy + 2) \div 153
        d == doy - (153 * mp + 2) \div 5 + 1
        m == IF mp < 10 THEN mp + 3 ELSE mp - 9
        y == yoe + era * 400
    IN  [year |-> IF m <= 2 THEN y + 1 ELSE y, month |-> m, day |-> d]

IsLeap(y) == (y % 4 = 0 /\ y % 100 # 0) \/ y % 400 = 0
DaysInMonth(y, m) ==
    IF m = 2 THEN (IF IsLeap(y) THEN 29 ELSE 28)
    ELSE IF m \in {4, 6, 9, 11} THEN 30 ELSE 31

ParseDate(s) ==
    IF Len(s) = 10 /\ s[5] = "-" /\ s[8] = "-"
       /\ \A i \in {1, 2, 3, 4, 6, 7, 9, 10} : IsDigit(s[i])
    THEN LET y == 1000 * DigitVal(s[1]) + 100 * DigitVal(s[2])
                  + 10 * DigitVal(s[3]) + DigitVal(s[4])
             m == 10 * DigitVal(s[6]) + DigitVal(s[7])
             d == 10 * DigitVal(s[9]) + DigitVal(s[10])
         IN  IF m \in 1..12 /\ d >= 1 /\ d <= DaysInMonth(y, m)
             THEN DateCell(DaysFromCivil(y, m, d))
             ELSE NaN
    ELSE NaN

\* one cell through pd.to_datetime(errors="coerce"); NaN becomes NaT.
\* Number cells do not occur in the date columns of the explored inputs.
ToDatetime(v) ==
    CASE v.t = "nan" -> NaN
      [] v.t = "date" -> v
      [] v.t = "str" -> ParseDate(v.s)

\* one cell through pd.to_numeric(errors="coerce"); string cells do not
\* occur in the numeric columns of the explored inputs.
ToNumeric(v) ==
    CASE v.t = "nan" -> NaN
      [] v.t = "num" -> v
      [] v.t = "bool" -> Num(v.n)

\* one cell through astype(str): NaN is rendered as the text "nan".
\* Number cells do not occur in the dimension columns of the explored inputs.
AsTypeStr(v) ==
    CASE v.t = "str" -> v.s
      [] v.t = "nan" -> NanRepr

(***************************************************************************)
(* transform.py: helpers.                                                  *)
(***************************************************************************)
\* min(Q1 - 1.5*IQR), max(Q3 + 1.5*IQR) and Series.clip of one cell
IqrLower(cells) ==
    LET q1 == Quantile(cells, 1, 4)
        q3 == Quantile(cells, 3, 4)
    IN  VSub(q1, VMul(Rat(3, 2), VSub(q3, q1)))
IqrUpper(cells) ==
    LET q1 == Quantile(cells, 1, 4)
        q3 == Quantile(cells, 3, 4)
    IN  VAdd(q3, VMul(Rat(3, 2), VSub(q3, q1)))
\* variant: only the lower bound is applied
Clip_lower_only(v, lower, upper) ==
    IF IsNull(v) THEN v
    ELSE IF VLt(v, lower) THEN lower
    ELSE v

Clip(v, lower, upper) ==
    IF IsNull(v) THEN v
    ELSE IF VLt(v, lower) THEN lower
    ELSE IF VLt(upper, v) THEN upper
    ELSE v

RECURSIVE handle_outliers_iqr(_, _)
handle_outliers_iqr(df, cols) ==
    IF cols = <<>> THEN df
    ELSE LET col == Head(cols) IN
         IF col \notin df.columns THEN handle_outliers_iqr(df, Tail(cols))
         ELSE IF df.dtypes[col] # "numeric" THEN handle_outliers_iqr(df, Tail(cols))
         ELSE LET cells == Column(df, col)
                  clipped == IF NonNull(cells) = <<>> THEN cells
                             ELSE [i \in 1..Len(cells) |->
                                     Clip(cells[i], IqrLower(cells), IqrUpper(cells))]
              IN  handle_outliers_iqr(SetColumn(df, col, clipped, "numeric"),
                                      Tail(cols))

RECURSIVE min_max_scale(_, _)
min_max_scale(df, cols) ==
    IF cols = <<>> THEN df
    ELSE LET col == Head(cols) IN
         IF col \notin df.columns THEN min_max_scale(df, Tail(cols))
         ELSE LET cells == Column(df, col)
                  col_min == SeriesMin(cells)
                  col_max == SeriesMax(cells)
                  scaled ==
                     IF NotNa(col_max) /\ col_max = col_min
                     THEN [i \in 1..Len(cells) |-> Num(0)]
                     ELSE [i \in 1..Len(cells) |->
                             VDiv(IF IsNull(cells[i]) \/ IsNull(col_min) THEN NaN
                                  ELSE VSub(cells[i], col_min),
                                  IF IsNull(col_min) THEN NaN
                                  ELSE VSub(col_max, col_min))]
              IN  min_max_scale(SetColumn(df, col \o NormSuffix, scaled, "numeric"),
                                Tail(cols))

standardize_column_names(df) ==
    LET newcols == {StdName(c) : c \in df.columns}
        src(nc) == CHOOSE c \in df.columns : StdName(c) = nc
    IN  [columns |-> newcols,
         dtypes |-> [nc \in newcols |-> df.dtypes[src(nc)]],
         index |-> df.index,
         rows |-> [i \in 1..Len(df.rows) |->
                     [nc \in newcols |-> df.rows[i][src(nc)]]]]

\* pd.concat([a, b], ignore_index=True)
Concat(a, b) ==
    LET cols == a.columns \cup b.columns
        ext(df, i) == [c \in cols |->
                         IF c \in df.columns THEN df.rows[i][c] ELSE NaN]
    IN  MkFrame(cols, [i \in 1..Len(a.rows) |-> ext(a, i)]
                      \o [i \in 1..Len(b.rows) |-> ext(b, i)])

\* for col in [...]: df_all[col] = df_all[col].astype(str).str.strip()
RECURSIVE TrimDimensions(_, _)
TrimDimensions(df, cols) ==
    IF cols = <<>> THEN df
    ELSE LET col == Head(cols)
             d2 == IF col \in df.columns
                   THEN SetColumn(df, col,
                          [i \in 1..Len(df.rows) |->
                             Str(StrStrip(AsTypeStr(df.rows[i][col])))],
                          "object")
                   ELSE df
         IN  TrimDimensions(d2, Tail(cols))

\* variant: of the records sharing a key, the first whose order date parses
\* is kept (the first of all when none parses)
drop_duplicates_prefer_dated(df, col) ==
    LET od == CfgName(order_date_col)
        dated(i) == od \in df.columns /\ df.rows[i][od].t = "str"
                       /\ ParseDate(df.rows[i][od].s).t = "date"
        same(i) == {j \in 1..Len(df.rows) : df.rows[j][col] = df.rows[i][col]}
        pick(i) == IF \E j \in same(i) : dated(j)
                   THEN CHOOSE j \in same(i) :
                           dated(j) /\ \A k \in same(i) : dated(k) => j <= k
                   ELSE CHOOSE j \in same(i) : \A k \in same(i) : j <= k
    IN  TakeRows(df, {i \in 1..Len(df.rows) : pick(i) = i})

\* variant: the last occurrence of each key is kept
drop_duplicates_keep_last(df, col) ==
    TakeRows(df, {i \in 1..Len(df.rows) :
                    \A j \in (i + 1)..Len(df.rows) : df.rows[j][col] # df.rows[i][col]})

\* DataFrame.drop_duplicates(subset=[col]): keep="first", NaN equals NaN
drop_duplicates(df, col) ==
    TakeRows(df, {i \in 1..Len(df.rows) :
                    \A j \in 1..(i - 1) : df.rows[j][col] # df.rows[i][col]})

\* Series.fillna(value): fillna(NaN) leaves the cell missing
FillNa(v, value) == IF IsNull(v) THEN value ELSE v

\* 2.2: per column, median for numeric kinds and "Unknown" for the others
FillMissing(df) ==
    LET fill(c) == IF df.dtypes[c] \in {"numeric", "bool"}
                   THEN Median(Column(df, c))
                   ELSE Str(Unknown)
    IN  [df EXCEPT !.rows = [i \in 1..Len(df.rows) |->
                               [c \in df.columns |-> FillNa(df.rows[i][c], fill(c))]]]

\* pd.get_dummies(df, columns=cols, drop_first=True)
LevelsOf(cells) == {cells[i] : i \in {j \in DOMAIN cells : NotNa(cells[j])}}
FirstLevel(levels) == CHOOSE l \in levels : \A m \in levels : ~StrLt(m.s, l.s)
DummyName(col, level) == col \o <<"_">> \o level.s

RECURSIVE get_dummies(_, _)
get_dummies(df, cols) ==
    IF cols = <<>> THEN df
    ELSE LET col == Head(cols)
             levels == LevelsOf(Column(df, col))
             kept == IF levels = {} THEN {} ELSE levels \ {FirstLevel(levels)}
             lvl(nc) == CHOOSE l \in kept : DummyName(col, l) = nc
             newcols == {DummyName(col, l) : l \in kept}
             allcols == (df.columns \ {col}) \cup newcols
             d2 == [columns |-> allcols,
                    dtypes |-> [c \in allcols |->
                                  IF c \in newcols THEN "bool" ELSE df.dtypes[c]],
                    index |-> df.index,
                    rows |-> [i \in 1..Len(df.rows) |->
                                [c \in allcols |->
                                   IF c \in newcols
                                   THEN Bool(df.rows[i][col] = lvl(c))
                                   ELSE df.rows[i][c]]]]
         IN  get_dummies(d2, Tail(cols))

\* the configured headers, standardized, that are columns of df
PresentCols(names, df) ==
    LET std == [i \in 1..Len(names) |-> CfgName(names[i])]
        present(c) == c \in df.columns
    IN  SelectSeq(std, present)

\* 3.4: pd.to_numeric / pd.to_datetime over the listed columns
RECURSIVE CoerceNumeric(_, _)
CoerceNumeric(df, cols) ==
    IF cols = <<>> THEN df
    ELSE LET col == Head(cols)
             d2 == IF col \in df.columns
                   THEN SetColumn(df, col,
                          [i \in 1..Len(df.rows) |-> ToNumeric(df.rows[i][col])],
                          "numeric")
                   ELSE df
         IN  CoerceNumeric(d2, Tail(cols))

RECURSIVE CoerceDatetime(_, _)
CoerceDatetime(df, cols) ==
    IF cols = <<>> THEN df
    ELSE LET col == Head(cols)
             d2 == IF col # None /\ col \in df.columns
                   THEN SetColumn(df, col,
                          [i \in 1..Len(df.rows) |-> ToDatetime(df.rows[i][col])],
                          "datetime")
                   ELSE df
         IN  CoerceDatetime(d2, Tail(cols))

\* variant: the zero divisor is left in place
ReplaceZero_not_guarded(v) == v

\* Series.replace(0, np.nan)
ReplaceZero(v) == IF v.t = "num" /\ v.n = 0 THEN NaN ELSE v

\* df[num] / df[den].replace(0, np.nan)
RatioColumn(df, num, den) ==
    [i \in 1..Len(df.rows) |-> VDiv(df.rows[i][num], ReplaceZero(df.rows[i][den]))]

\* df[name] = df[num] / df[den].replace(0, np.nan), when both columns exist
AddRatio(df, name, num, den) ==
    IF num \in df.columns /\ den \in df.columns
    THEN SetColumn(df, name, RatioColumn(df, num, den), "numeric")
    ELSE df

\* df["shipping_days"] = (df[sd] - df[od]).dt.days
AddShippingDays(df, od, sd) ==
    IF od # None /\ sd # None /\ od \in df.columns /\ sd \in df.columns
    THEN SetColumn(df, shipping_days,
           [i \in 1..Len(df.rows) |->
              IF IsNull(df.rows[i][sd]) \/ IsNull(df.rows[i][od]) THEN NaN
              ELSE Num(df.rows[i][sd].n - df.rows[i][od].n)],
           "numeric")
    ELSE df

\* df["order_year"], df["order_month"] = df[od].dt.year, df[od].dt.month
AddDateParts(df, od) ==
    IF od # None /\ od \in df.columns
    THEN SetColumn(
           SetColumn(df, order_year,
             [i \in 1..Len(df.rows) |->
                IF IsNull(df.rows[i][od]) THEN NaN
                ELSE Num(CivilFromDays(df.rows[i][od].n).year)],
             "numeric"),
           order_month,
           [i \in 1..Len(df.rows) |->
              IF IsNull(df.rows[i][od]) THEN NaN
              ELSE Num(CivilFromDays(df.rows[i][od].n).month)],
           "numeric")
    ELSE df

\* 4: derived columns
Enrich(df, od, sd) ==
    AddDateParts(
      AddShippingDays(
        AddRatio(
          AddRatio(
            AddRatio(df, profit_per_unit, total_profit, units_sold),
            revenue_per_unit, total_revenue, units_sold),
          profit_margin_ratio, total_profit, total_revenue),
        od, sd),
      od)

(***************************************************************************)
(* run_data_quality_checks.  A dict is a sequence of <<key, value>> pairs  *)
(* in insertion order.  The result is the report, or the exception raised. *)
(***************************************************************************)
\* DataFrame.describe() of one column; "std2" is the square of std
Describe(cells) ==
    LET xs == NonNull(cells)
        n == Len(xs)
        mean == IF n = 0 THEN NaN ELSE VMul(SumNums(xs), Rat(1, n))
        sq == [i \in 1..n |-> VMul(VSub(xs[i], mean), VSub(xs[i], mean))]
    IN  [count |-> n,
         mean |-> mean,
         std2 |-> IF n < 2 THEN NaN ELSE VMul(SumNums(sq), Rat(1, n - 1)),
         min |-> SeriesMin(cells),
         q25 |-> Quantile(cells, 1, 4),
         q50 |-> Quantile(cells, 1, 2),
         q75 |-> Quantile(cells, 3, 4),
         max |-> SeriesMax(cells)]

\* Series.duplicated().sum()
DuplicatedCount(cells) ==
    Cardinality({i \in DOMAIN cells : \E j \in 1..(i - 1) : cells[j] = cells[i]})
\* Series.isnull().sum()
NullCount(cells) == Cardinality({i \in DOMAIN cells : IsNull(cells[i])})
\* df[df[col] < 0].shape[0]
NegativeCount(cells) ==
    Cardinality({i \in DOMAIN cells : cells[i].t = "num" /\ cells[i].n < 0})
\* comparing a string or a timestamp cell with 0 raises TypeError
Comparable(cells) == \A i \in DOMAIN cells : cells[i].t \notin {"str", "date"}

run_data_quality_checks(df, pk, ncols) ==
    LET present(c) == c \in df.columns
        checked == SelectSeq(ncols, present)
        uniq == IF pk \in df.columns
                THEN << <<"uniqueness_pk_duplicates",
                          DuplicatedCount(Column(df, pk))>> >>
                ELSE <<>>
        nulls == << <<"null_counts_per_column",
                      [c \in df.columns |-> NullCount(Column(df, c))]>> >>
        range_issues == [c \in Range(checked) |-> NegativeCount(Column(df, c))]
        rng == << <<"range_negative_values", range_issues>> >>
        types == << <<"dtypes", df.dtypes>> >>
        refint == IF pk \in df.columns
                  THEN << <<"referential_integrity_pk_null",
                            NullCount(Column(df, pk))>> >>
                  ELSE <<>>
        desc == [c \in Range(ncols) |-> Describe(Column(df, c))]
        dist == << <<"distribution_numeric_describe", desc>> >>
    IN  IF \E c \in Range(checked) : ~Comparable(Column(df, c))
        THEN [raised |-> "TypeError", report |-> <<>>, df |-> df]
        ELSE IF \E c \in Range(ncols) : c \notin df.columns
        THEN [raised |-> "KeyError", report |-> <<>>, df |-> df]
        ELSE IF ncols = <<>>
        THEN [raised |-> "ValueError", report |-> <<>>, df |-> df]
        ELSE [raised |-> "",
              report |-> uniq \o nulls \o rng \o types \o refint \o dist,
              df |-> df]

HasKey(dict, k) == \E i \in DOMAIN dict : dict[i][1] = k
Get(dict, k) == dict[CHOOSE i \in DOMAIN dict : dict[i][1] = k][2]

(***************************************************************************)
(* The explored inputs: per raw header, the cells a row may hold.          *)
(***************************************************************************)
D1 == <<"2","0","2","0","-","0","1","-","0","5">>
D2 == <<"2","0","2","0","-","0","2","-","1","0">>
BadDate == <<"n","/","a">>
EU == <<"E","U">>
EUpad == <<" ","E","U"," ">>
DE == <<"D","E">>
PrioH == <<"H">>
PrioL == <<"L">>

\* a schema is the set of rows a source may hold
KeyRow(id, od) ==
    (id_col :> id) @@ (order_date_col :> od) @@ (UnitsSold :> Num(4))
ShipRow(id, od, sd) ==
    (id_col :> id) @@ (order_date_col :> od) @@ (ship_date_col :> sd) @@
    (UnitsSold :> Num(4))
DimRow(id, rg, ct) ==
    (id_col :> id) @@ (Region :> rg) @@ (Country :> ct) @@ (UnitsSold :> Num(4))
PriorityRow(id, pr) ==
    (id_col :> id) @@ (OrderPriority :> pr) @@ (UnitsSold :> Num(4))
UnitsRow(id, us) == (id_col :> id) @@ (UnitsSold :> us)
RatioRow(id, us, rev) ==
    (id_col :> id) @@ (UnitsSold :> us) @@ (TotalRevenue :> rev) @@
    (TotalProfit :> Num(-3))

SchemaKeys ==
    {KeyRow(id, od) : id \in {Num(1), Num(2), NaN}, od \in {Str(D1), Str(BadDate)}}
SchemaShip ==
    {ShipRow(Num(1), Str(D1), Str(D2)), ShipRow(Num(1), Str(D1), Str(BadDate)),
     ShipRow(Num(2), Str(BadDate), Str(D2)), ShipRow(Num(2), Str(D1), NaN),
     ShipRow(Num(2), NaN, Str(BadDate))}
SchemaDims ==
    {DimRow(Num(1), Str(EU), Str(DE)), DimRow(Num(1), Str(EUpad), Str(DE)),
     DimRow(Num(2), NaN, Str(DE)), DimRow(Num(2), Str(EU), NaN)}
SchemaPriority ==
    {PriorityRow(Num(1), Str(PrioH)), PriorityRow(Num(2), Str(PrioL)),
     PriorityRow(Num(2), NaN), PriorityRow(Num(1), NaN)}
SchemaMedian ==
    {UnitsRow(Num(1), Num(0)), UnitsRow(Num(2), Num(4)), UnitsRow(Num(3), NaN),
     UnitsRow(Num(2), NaN)}
SchemaRatios ==
    {RatioRow(Num(1), Num(0), Num(10)), RatioRow(Num(2), Num(4), Num(0)),
     RatioRow(Num(1), Num(4), Num(10)), RatioRow(Num(2), Num(0), Num(0))}
SchemaNoPk ==
    {(Region :> rg) @@ (UnitsSold :> Num(4)) : rg \in {Str(EU), NaN}}
SchemaNoNumeric ==
    {(id_col :> Num(1)) @@ (order_date_col :> od) : od \in {Str(D1), Str(BadDate)}}
SchemaUnits == {UnitsRow(Num(1), Num(0)), UnitsRow(Num(2), Num(4))}
SchemaIdOnly == {(id_col :> id) : id \in {Num(1), Num(3)}}

\* the schemas of the two sources
SchemaPairs ==
    {<<sc, sc>> : sc \in {SchemaKeys, SchemaShip, SchemaDims, SchemaPriority,
                           SchemaMedian, SchemaRatios, SchemaNoPk,
                           SchemaNoNumeric}}
    \cup {<<SchemaUnits, SchemaIdOnly>>}

HeadersOf(schema) == DOMAIN (CHOOSE r \in schema : TRUE)
SeqsUpTo(S, n) == UNION {[1..k -> S] : k \in 0..n}
FramesOf(schema, n) ==
    {MkFrame(HeadersOf(schema), rows) : rows \in SeqsUpTo(schema, n)}

EmptyFrame == MkFrame({}, <<>>)

\* the tables of the warehouse; before create_star_schema the database
\* holds none of them
TableNames == {"dim_date", "dim_country", "dim_item", "dim_channel", "fact_sales"}
NoStore ==
    [exists |-> FALSE,
     rows |-> [t \in TableNames |-> <<>>],
     auto_increment |-> [t \in TableNames |-> 1]]
NoFrames == [t \in {} |-> EmptyFrame]

\* no load and no dashboard read takes part in the run
NoLoad ==
    /\ db = NoStore
    /\ dim_frames = NoFrames
    /\ snapshot = None
    /\ run = 0

(***************************************************************************)
(* transform_sales(df_local, df_api), one action per numbered block.       *)
(***************************************************************************)
Init ==
    /\ \E sp \in SchemaPairs :
          /\ df_local \in FramesOf(sp[1], MaxLocal)
          /\ df_api \in FramesOf(sp[2], MaxApi)
    /\ pc = "1_merge"
    /\ df_all = EmptyFrame
    /\ pk_col = None
    /\ od_col = None
    /\ sd_col = None
    /\ numeric_cols_std = <<>>
    /\ validation_report = <<>>
    /\ stdout = <<>>
    /\ raised = ""
    /\ args = None
    /\ ret = None
    /\ NoLoad

\* 1. standardize both sources and concatenate them
Merge ==
    /\ pc = "1_merge"
    /\ df_all' = Concat(standardize_column_names(df_local),
                        standardize_column_names(df_api))
    /\ pc' = "1b_trim"
    /\ UNCHANGED loadvars
    /\ UNCHANGED <<df_local, df_api, pk_col, od_col, sd_col, numeric_cols_std,
                   validation_report, stdout, raised, args, ret>>

\* 1b. trim the dimension columns
Trim ==
    /\ pc = "1b_trim"
    /\ df_all' = TrimDimensions(df_all, dim_keep)
    /\ pc' = "2.1_dedup"
    /\ UNCHANGED loadvars
    /\ UNCHANGED <<df_local, df_api, pk_col, od_col, sd_col, numeric_cols_std,
                   validation_report, stdout, raised, args, ret>>

\* 2.1 choose the primary key column
PkChoice(df) ==
    IF CfgName(id_col) \in df.columns THEN CfgName(id_col) ELSE order_id

\* 2.1 drop duplicates on the primary key; an absent column raises KeyError
Dedup ==
    /\ pc = "2.1_dedup"
    /\ pk_col' = PkChoice(df_all)
    /\ IF pk_col' \in df_all.columns
       THEN /\ df_all' = drop_duplicates(df_all, pk_col')
            /\ pc' = "2.2_fillna"
            /\ UNCHANGED raised
       ELSE /\ raised' = "KeyError"
            /\ pc' = "raised"
            /\ UNCHANGED df_all
    /\ UNCHANGED loadvars
    /\ UNCHANGED <<df_local, df_api, od_col, sd_col, numeric_cols_std,
                   validation_report, stdout, args, ret>>

\* 2.2 impute the missing values
Impute ==
    /\ pc = "2.2_fillna"
    /\ df_all' = FillMissing(df_all)
    /\ pc' = "2.3_order_date"
    /\ UNCHANGED loadvars
    /\ UNCHANGED <<df_local, df_api, pk_col, od_col, sd_col, numeric_cols_std,
                   validation_report, stdout, raised, args, ret>>

\* variant: the order date is coerced but no row is dropped
OrderDateRows_keep_all(df, col) == CoerceDatetime(df, <<col>>)

\* 2.3 coerce the order date and drop the rows left without one
OrderDateRows(df, col) ==
    LET coerced == CoerceDatetime(df, <<col>>)
    IN  TakeRows(coerced, {i \in 1..Len(coerced.rows) : NotNa(coerced.rows[i][col])})

CoerceOrderDate ==
    /\ pc = "2.3_order_date"
    /\ IF CfgName(order_date_col) \in df_all.columns
       THEN /\ od_col' = CfgName(order_date_col)
            /\ df_all' = OrderDateRows(df_all, od_col')
       ELSE /\ od_col' = None
            /\ UNCHANGED df_all
    /\ pc' = "2.3_ship_date"
    /\ UNCHANGED loadvars
    /\ UNCHANGED <<df_local, df_api, pk_col, sd_col, numeric_cols_std,
                   validation_report, stdout, raised, args, ret>>

\* 2.3 coerce the ship date; no row is dropped
CoerceShipDate ==
    /\ pc = "2.3_ship_date"
    /\ IF CfgName(ship_date_col) \in df_all.columns
       THEN /\ sd_col' = CfgName(ship_date_col)
            /\ df_all' = CoerceDatetime(df_all, <<sd_col'>>)
       ELSE /\ sd_col' = None
            /\ UNCHANGED df_all
    /\ pc' = "2.4_outliers"
    /\ UNCHANGED loadvars
    /\ UNCHANGED <<df_local, df_api, pk_col, od_col, numeric_cols_std,
                   validation_report, stdout, raised, args, ret>>

\* 2.4 clip the outliers of the configured numeric columns
ClipOutliers ==
    /\ pc = "2.4_outliers"
    /\ numeric_cols_std' = PresentCols(numeric_cols, df_all)
    /\ df_all' = handle_outliers_iqr(df_all, numeric_cols_std')
    /\ pc' = "3.2_normalize"
    /\ UNCHANGED loadvars
    /\ UNCHANGED <<df_local, df_api, pk_col, od_col, sd_col,
                   validation_report, stdout, raised, args, ret>>

\* 3.2 min-max normalise units_sold and total_revenue
Normalize ==
    /\ pc = "3.2_normalize"
    /\ df_all' = min_max_scale(df_all, PresentCols(<<UnitsSold, TotalRevenue>>, df_all))
    /\ pc' = "3.3_encode"
    /\ UNCHANGED loadvars
    /\ UNCHANGED <<df_local, df_api, pk_col, od_col, sd_col, numeric_cols_std,
                   validation_report, stdout, raised, args, ret>>

\* 3.3 one-hot encode the categorical columns that are not dimensions
CatColsStd(df) ==
    LET present == PresentCols(categorical_cols, df)
        notdim(c) == c \notin Range(dim_keep)
    IN  SelectSeq(present, notdim)

Encode ==
    /\ pc = "3.3_encode"
    /\ df_all' = get_dummies(df_all, CatColsStd(df_all))
    /\ pc' = "3.4_dtypes"
    /\ UNCHANGED loadvars
    /\ UNCHANGED <<df_local, df_api, pk_col, od_col, sd_col, numeric_cols_std,
                   validation_report, stdout, raised, args, ret>>

\* 3.4 re-coerce the numeric and the date columns
Recoerce ==
    /\ pc = "3.4_dtypes"
    /\ df_all' = CoerceDatetime(CoerceNumeric(df_all, numeric_cols_std),
                                <<od_col, sd_col>>)
    /\ pc' = "4_enrich"
    /\ UNCHANGED loadvars
    /\ UNCHANGED <<df_local, df_api, pk_col, od_col, sd_col, numeric_cols_std,
                   validation_report, stdout, raised, args, ret>>

\* 4. derived columns
Enrichment ==
    /\ pc = "4_enrich"
    /\ df_all' = Enrich(df_all, od_col, sd_col)
    /\ pc' = "5_validate"
    /\ UNCHANGED loadvars
    /\ UNCHANGED <<df_local, df_api, pk_col, od_col, sd_col, numeric_cols_std,
                   validation_report, stdout, raised, args, ret>>

\* 5. run the quality checks and print the report
ReportHeader == "===== DATA QUALITY REPORT ====="

Validate ==
    /\ pc = "5_validate"
    /\ LET r == run_data_quality_checks(df_all, pk_col, numeric_cols_std)
       IN  IF r.raised = ""
           THEN /\ validation_report' = r.report
                /\ stdout' = <<ReportHeader>> \o r.report
                /\ pc' = "return"
                /\ UNCHANGED raised
           ELSE /\ raised' = r.raised
                /\ pc' = "raised"
                /\ UNCHANGED <<validation_report, stdout>>
    /\ UNCHANGED loadvars
    /\ UNCHANGED <<df_local, df_api, df_all, pk_col, od_col, sd_col,
                   numeric_cols_std, args, ret>>

\* variant: the records the range check flagged are left out of the result
ReturnValue_drop_flagged(df, report) ==
    LET rng == Get(report, "range_negative_values")
    IN  TakeRows(df, {i \in 1..Len(df.rows) :
                        \A c \in DOMAIN rng : ~VLt(df.rows[i][c], Num(0))})

\* return df_all: the frame alone, whatever the report says
ReturnValue(df, report) == df

Return ==
    /\ pc = "return"
    /\ ret' = ReturnValue(df_all, validation_report)
    /\ pc' = "done"
    /\ UNCHANGED loadvars
    /\ UNCHANGED <<df_local, df_api, df_all, pk_col, od_col, sd_col,
                   numeric_cols_std, validation_report, stdout, raised, args>>

Next ==
    \/ Merge
    \/ Trim
    \/ Dedup
    \/ Impute
    \/ CoerceOrderDate
    \/ CoerceShipDate
    \/ ClipOutliers
    \/ Normalize
    \/ Encode
    \/ Recoerce
    \/ Enrichment
    \/ Validate
    \/ Return

Spec == Init /\ [][Next]_vars

(***************************************************************************)
(* handle_outliers_iqr and run_data_quality_checks as functions of their   *)
(* arguments.                                                              *)
(***************************************************************************)
unit_price == <<"u","n","i","t","_","p","r","i","c","e">>
absent_col == <<"n","o","_","s","u","c","h","_","c","o","l">>

IqrSchema ==
    {(units_sold :> us) @@ (total_revenue :> rev) @@ (region :> Str(EU)) :
        us \in {Num(0), Num(1), Num(9), NaN}, rev \in {Num(0), Num(9)}}
IqrColLists ==
    {<<>>, <<units_sold>>, <<units_sold, total_revenue, region>>,
     <<unit_price, units_sold>>}

InitIQR ==
    /\ pc = "iqr_call"
    /\ \E df \in FramesOf(IqrSchema, MaxIqrRows) : \E cols \in IqrColLists :
          args = [df |-> df, cols |-> cols]
    /\ df_local = EmptyFrame
    /\ df_api = EmptyFrame
    /\ df_all = EmptyFrame
    /\ pk_col = None
    /\ od_col = None
    /\ sd_col = None
    /\ numeric_cols_std = <<>>
    /\ validation_report = <<>>
    /\ stdout = <<>>
    /\ raised = ""
    /\ ret = None
    /\ NoLoad

IqrCall ==
    /\ pc = "iqr_call"
    /\ ret' = handle_outliers_iqr(args.df, args.cols)
    /\ pc' = "iqr_return"
    /\ UNCHANGED loadvars
    /\ UNCHANGED <<df_local, df_api, df_all, pk_col, od_col, sd_col,
                   numeric_cols_std, validation_report, stdout, raised, args>>

NextIQR == IqrCall

SpecIQR == InitIQR /\ [][NextIQR]_vars

QcSchema ==
    {(order_id :> id) @@ (units_sold :> us) @@ (region :> Str(EU)) :
        id \in {Num(1), Num(2), NaN}, us \in {Num(-1), Num(4), NaN}}
QcPkCols == {order_id, region, absent_col}
QcColLists == {<<>>, <<units_sold>>, <<units_sold, unit_price>>, <<region>>}

InitQC ==
    /\ pc = "qc_call"
    /\ \E df \in FramesOf(QcSchema, MaxQcRows) : \E pk \in QcPkCols :
       \E cols \in QcColLists :
          args = [df |-> df, pk_col |-> pk, numeric_cols |-> cols]
    /\ df_local = EmptyFrame
    /\ df_api = EmptyFrame
    /\ df_all = EmptyFrame
    /\ pk_col = None
    /\ od_col = None
    /\ sd_col = None
    /\ numeric_cols_std = <<>>
    /\ validation_report = <<>>
    /\ stdout = <<>>
    /\ raised = ""
    /\ ret = None
    /\ NoLoad

QcCall ==
    /\ pc = "qc_call"
    /\ ret' = run_data_quality_checks(args.df, args.pk_col, args.numeric_cols)
    /\ pc' = "qc_return"
    /\ UNCHANGED loadvars
    /\ UNCHANGED <<df_local, df_api, df_all, pk_col, od_col, sd_col,
                   numeric_cols_std, validation_report, stdout, raised, args>>

NextQC == QcCall

SpecQC == InitQC /\ [][NextQC]_vars

(***************************************************************************)
(* The warehouse (etl_pipeline/load.py).  The store is a record            *)
(*   [exists : the tables were created, rows : table -> sequence of rows,  *)
(*    auto_increment : table -> next surrogate key]                        *)
(* a row maps each column of its table to a cell, NaN standing for NULL.   *)
(* Unique keys compare cells exactly.                                      *)
(***************************************************************************)
order_date == <<"o","r","d","e","r","_","d","a","t","e">>
date_id == <<"d","a","t","e","_","i","d">>
country_id == <<"c","o","u","n","t","r","y","_","i","d">>
item_id == <<"i","t","e","m","_","i","d">>
channel_id == <<"c","h","a","n","n","e","l","_","i","d">>
sales_id == <<"s","a","l","e","s","_","i","d">>
unit_cost == <<"u","n","i","t","_","c","o","s","t">>
total_cost == <<"t","o","t","a","l","_","c","o","s","t">>

DimTables == <<"dim_date", "dim_country", "dim_item", "dim_channel">>

\* CREATE TABLE: the columns of each table, the AUTO_INCREMENT key first
TableColumns(t) ==
    CASE t = "dim_date" -> <<date_id, order_date, order_year, order_month>>
      [] t = "dim_country" -> <<country_id, region, country>>
      [] t = "dim_item" -> <<item_id, item_type>>
      [] t = "dim_channel" -> <<channel_id, sales_channel>>
      [] t = "fact_sales" ->
            <<sales_id, order_id, date_id, country_id, item_id, channel_id,
              units_sold, unit_price, unit_cost, total_revenue, total_cost,
              total_profit, profit_per_unit, revenue_per_unit,
              profit_margin_ratio, shipping_days>>
AutoIncrementColumn(t) == Head(TableColumns(t))

\* UNIQUE KEY of each dimension table: its natural key
UniqueKey(t) ==
    CASE t = "dim_date" -> <<order_date>>
      [] t = "dim_country" -> <<region, country>>
      [] t = "dim_item" -> <<item_type>>
      [] t = "dim_channel" -> <<sales_channel>>
      [] t = "fact_sales" -> <<>>
\* NOT NULL columns besides the primary keys
NotNullColumns(t) == IF t = "dim_date" THEN {order_date} ELSE {}
\* FOREIGN KEY (column) REFERENCES table
ForeignKeys(t) ==
    IF t = "fact_sales"
    THEN {<<date_id, "dim_date">>, <<country_id, "dim_country">>,
          <<item_id, "dim_item">>, <<channel_id, "dim_channel">>}
    ELSE {}
\* the INT and BIGINT columns
IntegerColumns ==
    {date_id, country_id, item_id, channel_id, sales_id, order_id, order_year,
     order_month, shipping_days}

\* a number stored in an integer column is rounded, halves away from zero
RoundHalfAway(v) ==
    LET q == (2 * Abs(v.n) + v.d) \div (2 * v.d)
    IN  IF v.n < 0 THEN -q ELSE q
\* the value a column stores for a cell of the inserted frame
SqlValue(c, v) ==
    IF IsNull(v) THEN NaN
    ELSE IF v.t = "bool" THEN Num(v.n)
    ELSE IF c \in IntegerColumns /\ v.t = "num" THEN Num(RoundHalfAway(v))
    ELSE v

\* the rows an INSERT of the frame adds: surrogate keys from the counter,
\* columns the frame lacks NULL
NewRows(store, t, frame) ==
    [i \in 1..Len(frame.rows) |->
       [c \in Range(TableColumns(t)) |->
          IF c = AutoIncrementColumn(t) THEN Num(store.auto_increment[t] + i - 1)
          ELSE IF c \in frame.columns THEN SqlValue(c, frame.rows[i][c])
          ELSE NaN]]

\* the INSERT breaks a NOT NULL, UNIQUE or FOREIGN KEY constraint
ViolatesConstraint(store, t, new) ==
    LET old == store.rows[t]
        all == old \o new
        key == Range(UniqueKey(t))
        keyed(r) == \A k \in key : NotNa(r[k])
    IN  \/ \E i \in DOMAIN new : \E c \in NotNullColumns(t) : IsNull(new[i][c])
        \/ /\ key # {}
           /\ \E j \in (Len(old) + 1)..Len(all) : \E i \in 1..(j - 1) :
                 /\ keyed(all[j])
                 /\ \A k \in key : all[i][k] = all[j][k]
        \/ \E i \in DOMAIN new : \E fk \in ForeignKeys(t) :
              /\ NotNa(new[i][fk[1]])
              /\ \A r \in Range(store.rows[fk[2]]) :
                    r[AutoIncrementColumn(fk[2])] # new[i][fk[1]]

\* DataFrame.to_sql(t, engine, if_exists="append", index=False): one
\* transaction; a broken constraint raises and inserts nothing
to_sql(store, t, frame) ==
    LET new == NewRows(store, t, frame)
    IN  IF ~(frame.columns \subseteq Range(TableColumns(t)))
        THEN [raised |-> "OperationalError", store |-> store]
        ELSE IF ViolatesConstraint(store, t, new)
        THEN [raised |-> "IntegrityError", store |-> store]
        ELSE [raised |-> "",
              store |-> [store EXCEPT !.rows[t] = @ \o new,
                                      !.auto_increment[t] = @ + Len(new)]]

\* pd.read_sql("SELECT * FROM t", engine)
read_sql(store, t) == MkFrame(Range(TableColumns(t)), store.rows[t])

\* df[[c1, c2, ...]]
Project(df, cols) ==
    MkFrame(cols, [i \in 1..Len(df.rows) |-> [c \in cols |-> df.rows[i][c]]])

\* DataFrame.drop_duplicates(): whole rows, the first of each kept
DropDuplicateRows(df) ==
    TakeRows(df, {i \in 1..Len(df.rows) :
                    \A j \in 1..(i - 1) : df.rows[j] # df.rows[i]})

\* DataFrame.sort_values(c) on a date column: ascending, stable, NaT last
RECURSIVE InsertByDate(_, _, _)
InsertByDate(r, rows, c) ==
    IF rows = <<>> THEN <<r>>
    ELSE IF NotNa(r[c]) /\ (IsNull(Head(rows)[c]) \/ r[c].n < Head(rows)[c].n)
         THEN <<r>> \o rows
         ELSE <<Head(rows)>> \o InsertByDate(r, Tail(rows), c)
RECURSIVE SortRows(_, _)
SortRows(rows, c) ==
    IF rows = <<>> THEN <<>>
    ELSE InsertByDate(rows[Len(rows)], SortRows(SubSeq(rows, 1, Len(rows) - 1), c), c)
sort_values(df, c) == MkFrame(df.columns, SortRows(df.rows, c))

\* left.merge(right, how="left", on=keys): per left row, one row for every
\* right row with equal key cells (NaN equals NaN), one row with the right
\* columns missing when there is none
RECURSIVE MergeRows(_, _, _, _)
MergeRows(left, right, keys, i) ==
    IF i > Len(left.rows) THEN <<>>
    ELSE LET cols == left.columns \cup right.columns
             hit(r) == \A k \in keys : r[k] = left.rows[i][k]
             hits == SelectSeq(right.rows, hit)
             joined(r) == [c \in cols |-> IF c \in left.columns
                                          THEN left.rows[i][c] ELSE r[c]]
             alone == [c \in cols |-> IF c \in left.columns
                                      THEN left.rows[i][c] ELSE NaN]
             out == IF hits = <<>> THEN <<alone>>
                    ELSE [m \in 1..Len(hits) |-> joined(hits[m])]
         IN  out \o MergeRows(left, right, keys, i + 1)
\* variant: an inner join, left rows without a right row are lost
merge_inner(left, right, keys) ==
    MkFrame(left.columns \cup right.columns,
            SelectSeq(MergeRows(left, right, keys, 1),
                      LAMBDA r : \A c \in right.columns \ keys : NotNa(r[c])))

merge(left, right, keys) ==
    MkFrame(left.columns \cup right.columns, MergeRows(left, right, keys, 1))

\* create_star_schema: CREATE TABLE IF NOT EXISTS leaves existing tables and
\* their rows alone
create_star_schema(store) == [store EXCEPT !.exists = TRUE]

\* variant: only the fact table is emptied
reset_star_schema_fact_only(store) ==
    [store EXCEPT !.rows["fact_sales"] = <<>>]

\* reset_star_schema: one transaction deletes the rows of the five tables;
\* DELETE leaves the AUTO_INCREMENT counters where they are
reset_star_schema(store) ==
    [store EXCEPT !.rows = [t \in TableNames |-> <<>>]]

\* load_dimensions, one table: the columns the table is filled from
DimColumns(t) == Tail(TableColumns(t))
\* the frame that is inserted: distinct rows, dim_date sorted by date
DimValues(df, t) ==
    LET d == DropDuplicateRows(Project(df, Range(DimColumns(t))))
    IN  IF t = "dim_date"
        THEN CoerceDatetime(sort_values(d, order_date), <<order_date>>)
        ELSE d
\* the table is filled when the frame has its columns; the table is then
\* read back, surrogate keys included, into dim_frames
load_dimension(df, store, frames, t) ==
    IF ~(Range(DimColumns(t)) \subseteq df.columns)
    THEN [raised |-> "", store |-> store, dim_frames |-> frames]
    ELSE LET r == to_sql(store, t, DimValues(df, t))
         IN  IF r.raised # ""
             THEN [raised |-> r.raised, store |-> r.store, dim_frames |-> frames]
             ELSE [raised |-> "", store |-> r.store,
                   dim_frames |-> [x \in DOMAIN frames \cup {t} |->
                                     IF x = t THEN read_sql(r.store, t)
                                     ELSE frames[x]]]

\* load_dimensions(df, engine): the four tables in turn, stopping at the
\* first insert that raises
RECURSIVE LoadDimensionsFrom(_, _, _, _)
LoadDimensionsFrom(df, store, frames, tables) ==
    IF tables = <<>>
    THEN [raised |-> "", store |-> store, dim_frames |-> frames]
    ELSE LET r == load_dimension(df, store, frames, Head(tables))
         IN  IF r.raised # "" THEN r
             ELSE LoadDimensionsFrom(df, r.store, r.dim_frames, Tail(tables))
load_dimensions(df, store) == LoadDimensionsFrom(df, store, NoFrames, DimTables)

\* variant: the country dimension is joined on the country alone
JoinKeys_country_only(t) ==
    IF t = "dim_country" THEN <<country>> ELSE UniqueKey(t)

\* load_fact_sales: the columns each dimension frame is joined on
JoinKeys(t) == UniqueKey(t)

\* load_fact_sales: the left joins to the dimension frames that exist
RECURSIVE JoinDimensions(_, _, _)
JoinDimensions(fact, frames, tables) ==
    IF tables = <<>> THEN fact
    ELSE LET t == Head(tables)
             lookup == Project(CoerceDatetime(frames[t], <<order_date>>),
                               {AutoIncrementColumn(t)} \cup Range(UniqueKey(t)))
             joined == IF t \in DOMAIN frames
                       THEN merge(fact, lookup, Range(JoinKeys(t)))
                       ELSE fact
         IN  JoinDimensions(joined, frames, Tail(tables))

fact_cols ==
    <<order_id, date_id, country_id, item_id, channel_id, units_sold,
      unit_price, unit_cost, total_revenue, total_cost, total_profit,
      profit_per_unit, revenue_per_unit, profit_margin_ratio, shipping_days>>

\* load_fact_sales(df, engine, dim_frames): the frame that is inserted
FactToLoad(df, frames) ==
    LET fact == JoinDimensions(CoerceDatetime(df, <<order_date>>), frames, DimTables)
    IN  Project(fact, Range(fact_cols) \cap fact.columns)
\* merge raises KeyError for a join column the records do not have
MissingJoinKey(df, frames) ==
    \E t \in DOMAIN frames : ~(Range(JoinKeys(t)) \subseteq df.columns)
load_fact_sales(df, store, frames) ==
    IF MissingJoinKey(df, frames)
    THEN [raised |-> "KeyError", store |-> store]
    ELSE to_sql(store, "fact_sales", FactToLoad(df, frames))

\* the rows of SELECT ... FROM fact_sales f JOIN t ON f.fk = t.pk: pairs of
\* a fact row and its dimension row
InnerJoin(store, t) ==
    LET pk == AutoIncrementColumn(t)
    IN  {<<f, d>> \in Range(store.rows["fact_sales"]) \X Range(store.rows[t]) :
            NotNa(f[pk]) /\ f[pk] = d[pk]}
Min(a, b) == IF a < b THEN a ELSE b
QueryNames ==
    <<"q1_total_revenue_all", "q2_total_revenue_per_year",
      "q3_top5_country_profit", "q4_units_sold_per_item",
      "q5_avg_margin_per_channel", "q6_revenue_per_region_year",
      "q7_top10_order_profit", "q8_avg_shipping_days_country">>
\* run_analytic_queries: the number of rows each query returns, as logged
QueryRows(store, q) ==
    LET byCountry == {p[2][country] : p \in InnerJoin(store, "dim_country")}
    IN  CASE q = 1 -> 1
          [] q = 2 -> Cardinality({p[2][order_year] : p \in InnerJoin(store, "dim_date")})
          [] q = 3 -> Min(5, Cardinality(byCountry))
          [] q = 4 -> Cardinality({p[2][item_type] : p \in InnerJoin(store, "dim_item")})
          [] q = 5 -> Cardinality({p[2][sales_channel] :
                                     p \in InnerJoin(store, "dim_channel")})
          [] q = 6 -> Cardinality(
                        {<<c[2][region], d[2][order_year]>> :
                           <<c, d>> \in {x \in InnerJoin(store, "dim_country")
                                               \X InnerJoin(store, "dim_date") :
                                           x[1][1] = x[2][1]}})
          [] q = 7 -> Min(10, Len(store.rows["fact_sales"]))
          [] q = 8 -> Cardinality(byCountry)
run_analytic_queries(store, n) ==
    [q \in 1..n |-> <<QueryNames[q], QueryRows(store, q)>>]

\* dashboard, load_etl_data: fact_sales LEFT JOIN the four dimension tables;
\* a fact row keeps its columns and gets the natural keys of its dimension
\* rows, NULL where it has none
FlatRow(store, f) ==
    LET dimrow(t) == SelectSeq(store.rows[t],
                       LAMBDA d : d[AutoIncrementColumn(t)] = f[AutoIncrementColumn(t)])
        pick(t, c) == IF dimrow(t) = <<>> THEN NaN ELSE dimrow(t)[1][c]
        extra == {order_date, region, country, item_type, sales_channel}
    IN  [c \in DOMAIN f \cup extra |->
           CASE c = order_date -> pick("dim_date", c)
             [] c \in {region, country} -> pick("dim_country", c)
             [] c = item_type -> pick("dim_item", c)
             [] c = sales_channel -> pick("dim_channel", c)
             [] OTHER -> f[c]]
\* variant: inner joins, a fact row without one of its dimension rows is lost
load_etl_data_inner(store) ==
    LET flat == [i \in 1..Len(store.rows["fact_sales"]) |->
                   FlatRow(store, store.rows["fact_sales"][i])]
        whole(r) == \A c \in {order_date, region, country, item_type,
                               sales_channel} : NotNa(r[c])
    IN  IF store.exists
        THEN [source |-> "dw_sales", rows |-> SelectSeq(flat, whole)]
        ELSE [source |-> "fact_sales.csv", rows |-> <<>>]

\* the order date of the rows read goes through pd.to_datetime; without the
\* tables the query raises and the frame comes from the CSV snapshot, whose
\* rows are not part of the model
load_etl_data(store) ==
    IF store.exists
    THEN [source |-> "dw_sales",
          rows |-> [i \in 1..Len(store.rows["fact_sales"]) |->
                      [FlatRow(store, store.rows["fact_sales"][i])
                         EXCEPT ![order_date] = ToDatetime(@)]]]
    ELSE [source |-> "fact_sales.csv", rows |-> <<>>]

(***************************************************************************)
(* transform_sales as a function of its two sources: the frame it returns  *)
(* or the exception it raises.                                             *)
(***************************************************************************)
\* blocks 1 to 2.2: merge, trim, choose the key, dedup, impute
Combined(local, api) ==
    LET merged == TrimDimensions(Concat(standardize_column_names(local),
                                        standardize_column_names(api)), dim_keep)
        pk == PkChoice(merged)
    IN  IF pk \notin merged.columns
        THEN [raised |-> "KeyError", df |-> EmptyFrame, pk |-> pk]
        ELSE [raised |-> "", df |-> FillMissing(drop_duplicates(merged, pk)), pk |-> pk]

\* block 2.3: the two date columns
Dated(t) ==
    LET od == IF CfgName(order_date_col) \in t.df.columns
              THEN CfgName(order_date_col) ELSE None
        dated == IF od = None THEN t.df ELSE OrderDateRows(t.df, od)
        sd == IF CfgName(ship_date_col) \in dated.columns
              THEN CfgName(ship_date_col) ELSE None
    IN  [raised |-> t.raised, df |-> CoerceDatetime(dated, <<sd>>), pk |-> t.pk,
         od |-> od, sd |-> sd]

\* blocks 3.1 and 3.2: clip the outliers, then scale
Cleaned(t) ==
    LET ncols == PresentCols(numeric_cols, t.df)
        clipped == handle_outliers_iqr(t.df, ncols)
    IN  [raised |-> t.raised, pk |-> t.pk, od |-> t.od, sd |-> t.sd, ncols |-> ncols,
         df |-> min_max_scale(clipped,
                              PresentCols(<<UnitsSold, TotalRevenue>>, clipped))]

\* blocks 3.3 to 4: one-hot encoding, the final types, the derived columns
Enriched(t) ==
    [t EXCEPT !.df = Enrich(CoerceDatetime(
                                CoerceNumeric(get_dummies(t.df, CatColsStd(t.df)),
                                              t.ncols),
                                <<t.od, t.sd>>),
                            t.od, t.sd)]

\* block 5 and the return: the frame, or the exception that ends the call
Validated(t) ==
    IF t.raised # "" THEN [raised |-> t.raised, df |-> EmptyFrame]
    ELSE [raised |-> run_data_quality_checks(t.df, t.pk, t.ncols).raised, df |-> t.df]

\* transform_sales(df_local, df_api): the blocks in program order
transform_sales(local, api) ==
    Validated(Enriched(Cleaned(Dated(Combined(local, api)))))

(***************************************************************************)
(* The explored loads: frames transform_sales returns for sales records    *)
(* with the four dimensions, and for records without a sales channel.      *)
(***************************************************************************)
MaxLoadRows == 2
MaxRuns == 2

AS == <<"A","S">>
FR == <<"F","R">>
Tea == <<"T","e","a">>
Pen == <<"P","e","n">>
Online == <<"O","n","l","i","n","e">>
Offline == <<"O","f","f","l","i","n","e">>

LoadRow(id, od, rg, ct, it, ch) ==
    (id_col :> Num(id)) @@ (order_date_col :> Str(od)) @@ (Region :> Str(rg)) @@
    (Country :> Str(ct)) @@ (ItemType :> Str(it)) @@ (SalesChannel :> Str(ch)) @@
    (UnitsSold :> Num(4))
SchemaLoad ==
    {LoadRow(1, D2, EU, DE, Tea, Online), LoadRow(2, D1, EU, FR, Tea, Offline),
     LoadRow(3, D1, AS, DE, Pen, Online), LoadRow(1, BadDate, EU, FR, Pen, Offline),
     LoadRow(4, D2, EUpad, DE, Tea, Online)}
SchemaLoadNoChannel ==
    {(id_col :> Num(1)) @@ (order_date_col :> Str(D1)) @@ (Region :> Str(EU)) @@
     (Country :> Str(DE)) @@ (ItemType :> Str(it)) @@ (UnitsSold :> Num(4)) :
        it \in {Tea, Pen}}

TransformedOf(schema, n) ==
    {transform_sales(l, MkFrame(HeadersOf(schema), <<>>)).df : l \in FramesOf(schema, n)}
LoadFrames ==
    TransformedOf(SchemaLoad, MaxLoadRows) \cup TransformedOf(SchemaLoadNoChannel, 1)

(***************************************************************************)
(* load_to_warehouse(df_transformed), one action per statement that        *)
(* commits to the store.  pc is the loader state reached; between Reset    *)
(* and DimensionsLoaded it names the dimension table filled last.  A step  *)
(* ends in one of the given outcomes: "" when it returns, the name of the  *)
(* exception when the connection is lost.  run counts the calls, remembers *)
(* the counters the reset of the call left and the state a call failed in. *)
(***************************************************************************)
Outcomes == {"", "OperationalError"}

LoaderStates ==
    <<"Uninitialized", "SchemaEnsured", "Reset", "dim_date", "dim_country",
      "dim_item", "DimensionsLoaded", "FactLoaded", "Complete">>
\* variant: the reset is left out of the sequence
After_skip_reset(state) ==
    LoaderStates[(IF state = "Uninitialized" THEN 2 ELSE 1)
                 + CHOOSE i \in 1..Len(LoaderStates) : LoaderStates[i] = state]

\* the state the next statement of load_to_warehouse leads to
After(state) ==
    LoaderStates[1 + CHOOSE i \in 1..Len(LoaderStates) : LoaderStates[i] = state]

\* variant: the exception is caught and the next statement runs
AbortState_swallowed(state) == After(state)

\* a statement raises in the given state: nothing catches the exception, no
\* later statement runs
AbortState(state) == "Aborted"

\* variant: the load is undone when an exception leaves it
Propagate_rollback(store) == reset_star_schema(store)

\* the exception leaves load_to_warehouse: nothing is retried or undone, the
\* store keeps what was committed
Propagate(store) == store

InitLoad ==
    /\ pc = "Uninitialized"
    /\ \E df \in LoadFrames : args = [df_transformed |-> df]
    /\ db = NoStore
    /\ dim_frames = NoFrames
    /\ snapshot = None
    /\ run = [n |-> 1, base |-> NoStore.auto_increment, failed_in |-> ""]
    /\ df_local = EmptyFrame
    /\ df_api = EmptyFrame
    /\ df_all = EmptyFrame
    /\ pk_col = None
    /\ od_col = None
    /\ sd_col = None
    /\ numeric_cols_std = <<>>
    /\ validation_report = <<>>
    /\ stdout = <<>>
    /\ raised = ""
    /\ ret = None

\* what every step leaves alone
LoaderFrame ==
    UNCHANGED <<df_local, df_api, df_all, pk_col, od_col, sd_col,
                numeric_cols_std, validation_report, args, ret, snapshot>>

\* a step raised: the run is over
Abort(exception) ==
    /\ raised' = exception
    /\ pc' = AbortState(pc)
    /\ db' = Propagate(db)
    /\ run' = [run EXCEPT !.failed_in = pc]
    /\ UNCHANGED <<dim_frames, stdout>>

CreateStarSchema(outs) ==
    /\ pc = "Uninitialized"
    /\ \E o \in outs :
          IF o = ""
          THEN /\ db' = create_star_schema(db)
               /\ pc' = After(pc)
               /\ UNCHANGED <<raised, run, dim_frames, stdout>>
          ELSE Abort(o)
    /\ LoaderFrame

ResetStarSchema(outs) ==
    /\ pc = "SchemaEnsured"
    /\ \E o \in outs :
          IF o = ""
          THEN /\ db' = reset_star_schema(db)
               /\ run' = [run EXCEPT !.base = db.auto_increment]
               /\ pc' = After(pc)
               /\ UNCHANGED <<raised, dim_frames, stdout>>
          ELSE Abort(o)
    /\ LoaderFrame

\* load_dimensions, the block of table t
LoadDimension(t, outs) ==
    /\ \E o \in outs :
          LET r == load_dimension(args.df_transformed, db, dim_frames, t)
          IN  IF o # "" THEN Abort(o)
              ELSE IF r.raised # "" THEN Abort(r.raised)
              ELSE /\ db' = r.store
                   /\ dim_frames' = r.dim_frames
                   /\ pc' = After(pc)
                   /\ UNCHANGED <<raised, run, stdout>>
    /\ LoaderFrame

LoadDimDate(outs) == pc = "Reset" /\ LoadDimension("dim_date", outs)
LoadDimCountry(outs) == pc = "dim_date" /\ LoadDimension("dim_country", outs)
LoadDimItem(outs) == pc = "dim_country" /\ LoadDimension("dim_item", outs)
LoadDimChannel(outs) == pc = "dim_item" /\ LoadDimension("dim_channel", outs)

LoadFactSales(outs) ==
    /\ pc = "DimensionsLoaded"
    /\ \E o \in outs :
          LET r == load_fact_sales(args.df_transformed, db, dim_frames)
          IN  IF o # "" THEN Abort(o)
              ELSE IF r.raised # "" THEN Abort(r.raised)
              ELSE /\ db' = r.store
                   /\ pc' = After(pc)
                   /\ UNCHANGED <<raised, run, dim_frames, stdout>>
    /\ LoaderFrame

\* the eight queries in turn; a query that raises ends the run before the
\* remaining queries and before the completion is logged
RunAnalyticQueries(outs) ==
    /\ pc = "FactLoaded"
    /\ \E o \in outs :
          IF o = ""
          THEN /\ stdout' = run_analytic_queries(db, Len(QueryNames))
               /\ pc' = After(pc)
               /\ UNCHANGED <<raised, run, db, dim_frames>>
          ELSE \E done \in 0..(Len(QueryNames) - 1) :
                  /\ stdout' = run_analytic_queries(db, done)
                  /\ raised' = o
                  /\ pc' = AbortState(pc)
                  /\ db' = Propagate(db)
                  /\ run' = [run EXCEPT !.failed_in = pc]
                  /\ UNCHANGED dim_frames
    /\ LoaderFrame

\* the pipeline is run again on the same records
StartRun ==
    /\ pc \in {"Complete", "Aborted"}
    /\ run.n < MaxRuns
    /\ run' = [run EXCEPT !.n = @ + 1, !.failed_in = ""]
    /\ pc' = "Uninitialized"
    /\ raised' = ""
    /\ stdout' = <<>>
    /\ dim_frames' = NoFrames
    /\ UNCHANGED db
    /\ LoaderFrame

NextLoad ==
    \/ CreateStarSchema(Outcomes)
    \/ ResetStarSchema(Outcomes)
    \/ LoadDimDate(Outcomes)
    \/ LoadDimCountry(Outcomes)
    \/ LoadDimItem(Outcomes)
    \/ LoadDimChannel(Outcomes)
    \/ LoadFactSales(Outcomes)
    \/ RunAnalyticQueries(Outcomes)
    \/ StartRun

SpecLoad == InitLoad /\ [][NextLoad]_vars

(***************************************************************************)
(* The dashboard next to the loader: load_etl_data runs in a process of    *)
(* its own, at any position of the load, on what the store has committed.  *)
(* snapshot keeps the frame it returned, with the position of the load and *)
(* the store at the time of the read.  Every step of the load returns.     *)
(***************************************************************************)
DashboardRead ==
    /\ snapshot = None
    /\ snapshot' = [at |-> pc, run |-> run.n, store |-> db,
                    data |-> load_etl_data(db)]
    /\ UNCHANGED <<pc, df_local, df_api, df_all, pk_col, od_col, sd_col,
                   numeric_cols_std, validation_report, stdout, raised, args,
                   ret, db, dim_frames, run>>

NextDash ==
    \/ CreateStarSchema({""})
    \/ ResetStarSchema({""})
    \/ LoadDimDate({""})
    \/ LoadDimCountry({""})
    \/ LoadDimItem({""})
    \/ LoadDimChannel({""})
    \/ LoadFactSales({""})
    \/ RunAnalyticQueries({""})
    \/ StartRun
    \/ DashboardRead

SpecDash == InitLoad /\ [][NextDash]_vars

(***************************************************************************)
(* load_dimensions and load_fact_sales as functions of their arguments:    *)
(* the dimension tables are filled from a first record set, then either    *)
(* load_dimensions or load_fact_sales is called with a second record set   *)
(* on the store and the dimension frames the first call left.              *)
(***************************************************************************)
InitSteps ==
    /\ pc = "dims_call"
    /\ \E first \in LoadFrames : \E second \in LoadFrames :
          args = [first |-> first, second |-> second]
    /\ db = create_star_schema(NoStore)
    /\ dim_frames = NoFrames
    /\ snapshot = None
    /\ run = 0
    /\ df_local = EmptyFrame
    /\ df_api = EmptyFrame
    /\ df_all = EmptyFrame
    /\ pk_col = None
    /\ od_col = None
    /\ sd_col = None
    /\ numeric_cols_std = <<>>
    /\ validation_report = <<>>
    /\ stdout = <<>>
    /\ raised = ""
    /\ ret = None

StepsFrame ==
    UNCHANGED <<df_local, df_api, df_all, pk_col, od_col, sd_col,
                numeric_cols_std, validation_report, stdout, args, snapshot, run>>

\* dim_frames = load_dimensions(first, engine) on the empty tables
DimsCall ==
    /\ pc = "dims_call"
    /\ LET r == load_dimensions(args.first, db)
       IN  /\ db' = r.store
           /\ dim_frames' = r.dim_frames
           /\ raised' = r.raised
    /\ pc' = "dims_return"
    /\ UNCHANGED ret
    /\ StepsFrame

\* load_dimensions(second, engine) on the tables as they are
DimsCallAgain ==
    /\ pc = "dims_return"
    /\ LET r == load_dimensions(args.second, db)
       IN  /\ db' = r.store
           /\ ret' = r.dim_frames
           /\ raised' = r.raised
    /\ pc' = "dims_return_again"
    /\ UNCHANGED dim_frames
    /\ StepsFrame

\* load_fact_sales(second, engine, dim_frames)
FactCall ==
    /\ pc = "dims_return"
    /\ LET r == load_fact_sales(args.second, db, dim_frames)
       IN  /\ db' = r.store
           /\ raised' = r.raised
    /\ pc' = "fact_return"
    /\ UNCHANGED <<dim_frames, ret>>
    /\ StepsFrame

NextSteps ==
    \/ DimsCall
    \/ DimsCallAgain
    \/ FactCall

SpecSteps == InitSteps /\ [][NextSteps]_vars

(***************************************************************************)
(* Properties of transform_sales.                                          *)
(***************************************************************************)
\* the merged input before and after the trimming of the dimension columns
RawMerged ==
    Concat(standardize_column_names(df_local), standardize_column_names(df_api))
MergedInput == TrimDimensions(RawMerged, dim_keep)
\* the cell a row label had in the merged input
RawCell(label, c) == RawMerged.rows[label + 1][c]
ParsesAsDate(v) == v.t = "str" /\ ParseDate(v.s).t = "date"

\* C1: immediately after the primary-key deduplication no two surviving
\* records share a key value, every key value of the merged input survives,
\* and the survivor of each key is its first record in merged order (local
\* rows, then api rows), the survivors keeping that order.
C1_DedupKeepsFirst ==
    pc = "2.2_fillna" =>
      LET m == MergedInput
          n == Len(df_all.rows)
          firstPos(k) == CHOOSE p \in 1..Len(m.rows) :
                            /\ m.rows[p][pk_col] = k
                            /\ \A q \in 1..(p - 1) : m.rows[q][pk_col] # k
      IN  /\ \A i, j \in 1..n :
                i # j => df_all.rows[i][pk_col] # df_all.rows[j][pk_col]
          /\ \A p \in 1..Len(m.rows) :
                \E i \in 1..n : df_all.rows[i][pk_col] = m.rows[p][pk_col]
          /\ \A i \in 1..n :
                /\ df_all.index[i] = firstPos(df_all.rows[i][pk_col]) - 1
                /\ df_all.rows[i] = m.rows[firstPos(df_all.rows[i][pk_col])]
          /\ \A i, j \in 1..n : i < j => df_all.index[i] < df_all.index[j]

\* a key of the local source recurs, with other cells, in the api source
C1_Witness ==
    /\ pc = "2.2_fillna"
    /\ \E p \in 1..Len(df_local.rows) :
       \E q \in (Len(df_local.rows) + 1)..Len(MergedInput.rows) :
          /\ MergedInput.rows[p][pk_col] = MergedInput.rows[q][pk_col]
          /\ MergedInput.rows[p] # MergedInput.rows[q]
    /\ Len(df_all.rows) >= 2

\* C2: in the returned record set the primary key of every record is
\* non-null and no two records share a primary-key value.
C2_PkUniqueNonNull ==
    pc = "done" =>
      /\ \A i \in 1..Len(ret.rows) : NotNa(ret.rows[i][pk_col])
      /\ \A i, j \in 1..Len(ret.rows) :
            i # j => ret.rows[i][pk_col] # ret.rows[j][pk_col]

\* C3: when neither the configured primary-key column nor order_id is a
\* column of the merged set, transform_sales does not raise.
C3_MissingPkDoesNotRaise ==
    (/\ pc # "1_merge"
     /\ CfgName(id_col) \notin df_all.columns
     /\ order_id \notin df_all.columns)
    => pc # "raised"

\* C4: in every returned record, a categorical field whose input cell was
\* missing holds the sentinel "Unknown".
C4_MissingCategoricalIsUnknown ==
    pc = "done" =>
      \A i \in 1..Len(ret.rows) :
      \A c \in {CfgName(x) : x \in Range(categorical_cols)} \cap ret.columns :
         IsNull(RawCell(ret.index[i], c)) => ret.rows[i][c] = Str(Unknown)

\* C5: every returned record has a valid order date; the returned records
\* are exactly the deduplicated records whose order date parses, whatever
\* their ship date; a ship date that is missing or does not parse is left
\* missing in the returned record.
C5_OrderDateDropsShipDateKeeps ==
    (pc = "done" /\ od_col # None) =>
      LET d == drop_duplicates(MergedInput, pk_col)
      IN  /\ \A i \in 1..Len(ret.rows) : ret.rows[i][od_col].t = "date"
          /\ {ret.index[i] : i \in 1..Len(ret.rows)}
               = {d.index[j] : j \in {k \in 1..Len(d.rows) :
                                        ParsesAsDate(d.rows[k][od_col])}}
          /\ sd_col # None =>
               \A i \in 1..Len(ret.rows) :
                  ~ParsesAsDate(RawCell(ret.index[i], sd_col))
                     => IsNull(ret.rows[i][sd_col])

\* a record is returned with an unparseable ship date left missing while
\* another record was dropped for its order date
C5_Witness ==
    /\ pc = "done"
    /\ od_col # None
    /\ sd_col # None
    /\ \E i \in 1..Len(ret.rows) :
          /\ RawCell(ret.index[i], sd_col) = Str(BadDate)
          /\ IsNull(ret.rows[i][sd_col])
    /\ \E p \in 1..Len(RawMerged.rows) :
          /\ RawMerged.rows[p][od_col] = Str(BadDate)
          /\ \A q \in 1..(p - 1) : RawMerged.rows[q][pk_col] # RawMerged.rows[p][pk_col]

\* the records that enter the imputation step, and the number of them that
\* the order-date step then drops
Deduplicated == drop_duplicates(MergedInput, pk_col)
OrderDateDropCount ==
    IF od_col = None THEN 0
    ELSE LET d == FillMissing(Deduplicated)
         IN  Cardinality({i \in 1..Len(d.rows) : IsNull(ToDatetime(d.rows[i][od_col]))})

\* every whole number that the quality report, and so the printed output,
\* carries
WholeNumbers(cellset) == {v.n : v \in {x \in cellset : x.t = "num" /\ x.d = 1}}
ReportedNumbers ==
    LET r == validation_report
        nulls == Get(r, "null_counts_per_column")
        rng == Get(r, "range_negative_values")
        desc == Get(r, "distribution_numeric_describe")
    IN  (IF HasKey(r, "uniqueness_pk_duplicates")
         THEN {Get(r, "uniqueness_pk_duplicates")} ELSE {})
        \cup (IF HasKey(r, "referential_integrity_pk_null")
              THEN {Get(r, "referential_integrity_pk_null")} ELSE {})
        \cup {nulls[c] : c \in DOMAIN nulls}
        \cup {rng[c] : c \in DOMAIN rng}
        \cup {desc[c].count : c \in DOMAIN desc}
        \cup UNION {WholeNumbers({desc[c].mean, desc[c].std2, desc[c].min,
                                  desc[c].q25, desc[c].q50, desc[c].q75,
                                  desc[c].max}) : c \in DOMAIN desc}

\* C6: whenever records are dropped for their order date, the number of
\* records dropped is among the numbers the run reports.
C6_DropCountReported ==
    (pc = "done" /\ OrderDateDropCount > 0)
    => (/\ stdout = <<ReportHeader>> \o validation_report
        /\ OrderDateDropCount \in ReportedNumbers)

\* C7: in every returned record units_sold = 0 leaves profit_per_unit and
\* revenue_per_unit null and total_revenue = 0 leaves profit_margin_ratio
\* null; no ratio is infinite and no division error is raised.
IsZero(v) == v.t = "num" /\ v.n = 0
C7_ZeroGuardedRatios ==
    /\ raised # "ZeroDivisionError"
    /\ pc = "done" =>
         \A i \in 1..Len(ret.rows) :
            /\ \A c \in {profit_per_unit, revenue_per_unit, profit_margin_ratio}
                          \cap ret.columns : ret.rows[i][c].t # "inf"
            /\ (profit_per_unit \in ret.columns /\ IsZero(ret.rows[i][units_sold]))
                  => IsNull(ret.rows[i][profit_per_unit])
            /\ (revenue_per_unit \in ret.columns /\ IsZero(ret.rows[i][units_sold]))
                  => IsNull(ret.rows[i][revenue_per_unit])
            /\ (profit_margin_ratio \in ret.columns
                   /\ IsZero(ret.rows[i][total_revenue]))
                  => IsNull(ret.rows[i][profit_margin_ratio])

\* a returned record has units_sold = 0, another has total_revenue = 0 and
\* a third ratio is defined
C7_Witness ==
    /\ pc = "done"
    /\ {profit_per_unit, revenue_per_unit, profit_margin_ratio} \subseteq ret.columns
    /\ \E i \in 1..Len(ret.rows) :
          IsZero(ret.rows[i][units_sold]) /\ ~IsZero(ret.rows[i][total_revenue])
    /\ \E i \in 1..Len(ret.rows) :
          IsZero(ret.rows[i][total_revenue]) /\ ~IsZero(ret.rows[i][units_sold])

\* C8: for every numeric column handle_outliers_iqr processes, every value
\* after clipping lies in [Q1 - 1.5*IQR, Q3 + 1.5*IQR] computed from the
\* column before clipping, values inside the range are unchanged, and the
\* rows, their labels and every other column are unchanged.
C8_ClipWithinIqrBounds ==
    pc = "iqr_return" =>
      LET a == args.df
          processed(c) == c \in Range(args.cols) /\ a.dtypes[c] = "numeric"
      IN  /\ ret.columns = a.columns
          /\ ret.index = a.index
          /\ Len(ret.rows) = Len(a.rows)
          /\ \A c \in a.columns : \A i \in 1..Len(a.rows) :
                LET v == a.rows[i][c]
                    w == ret.rows[i][c]
                    q1 == Quantile(Column(a, c), 1, 4)
                    q3 == Quantile(Column(a, c), 3, 4)
                    iqr == VSub(q3, q1)
                    lower == VSub(q1, VMul(Rat(3, 2), iqr))
                    upper == VAdd(q3, VMul(Rat(3, 2), iqr))
                IN  IF processed(c) /\ NotNa(v)
                    THEN /\ w.t = "num"
                         /\ VLe(lower, w)
                         /\ VLe(w, upper)
                         /\ (VLe(lower, v) /\ VLe(v, upper)) => w = v
                    ELSE w = v

\* a value above the range and a value below the range are clipped
C8_Witness ==
    /\ pc = "iqr_return"
    /\ \E c \in args.df.columns : \E i \in 1..Len(ret.rows) :
          /\ args.df.rows[i][c].t = "num"
          /\ VLt(ret.rows[i][c], args.df.rows[i][c])
    /\ \E c \in args.df.columns : \E i \in 1..Len(ret.rows) :
          /\ args.df.rows[i][c].t = "num"
          /\ VLt(args.df.rows[i][c], ret.rows[i][c])

\* the k-th smallest of the non-missing cells, by counting
KthSmallest(cells, k) ==
    LET idx == {i \in DOMAIN cells : cells[i].t = "num"}
    IN  cells[CHOOSE i \in idx :
                /\ Cardinality({j \in idx : VLt(cells[j], cells[i])}) < k
                /\ Cardinality({j \in idx : VLe(cells[j], cells[i])}) >= k]
MedianByCount(cells) ==
    LET n == Cardinality({i \in DOMAIN cells : cells[i].t = "num"})
    IN  IF n % 2 = 1 THEN KthSmallest(cells, (n + 1) \div 2)
        ELSE VMul(VAdd(KthSmallest(cells, n \div 2),
                       KthSmallest(cells, n \div 2 + 1)), Rat(1, 2))

\* C9: immediately after the imputation, in every numeric column of the
\* deduplicated set a cell that was missing equals the median of the
\* column's non-missing cells before imputation and a cell that was not
\* missing is unchanged.
C9_MedianImputation ==
    pc = "2.3_order_date" =>
      LET d == Deduplicated
      IN  /\ Len(df_all.rows) = Len(d.rows)
          /\ \A c \in {x \in d.columns : d.dtypes[x] = "numeric"} :
             \A i \in 1..Len(d.rows) :
                IF NotNa(d.rows[i][c]) THEN df_all.rows[i][c] = d.rows[i][c]
                ELSE (\E j \in 1..Len(d.rows) : NotNa(d.rows[j][c]))
                        => df_all.rows[i][c] = MedianByCount(Column(d, c))

\* a missing cell is filled with a median that lies between two cells
C9_Witness ==
    /\ pc = "2.3_order_date"
    /\ \E c \in Deduplicated.columns : \E i \in 1..Len(df_all.rows) :
          /\ Deduplicated.dtypes[c] = "numeric"
          /\ IsNull(Deduplicated.rows[i][c])
          /\ df_all.rows[i][c].t = "num"
          /\ \A j \in 1..Len(df_all.rows) :
                Deduplicated.rows[j][c] # df_all.rows[i][c]

\* C10: run_data_quality_checks returns a report, never raises and leaves
\* the record set unchanged, for every frame, key column and column list.
C10_QcNeverRaises ==
    pc = "qc_return" => (ret.raised = "" /\ ret.df = args.df)

\* the quality report names a problem: a duplicated or missing key, a
\* missing cell or a negative value
FoundProblems(report) ==
    LET nulls == Get(report, "null_counts_per_column")
        rng == Get(report, "range_negative_values")
    IN  \/ HasKey(report, "uniqueness_pk_duplicates")
           /\ Get(report, "uniqueness_pk_duplicates") > 0
        \/ HasKey(report, "referential_integrity_pk_null")
           /\ Get(report, "referential_integrity_pk_null") > 0
        \/ \E c \in DOMAIN nulls : nulls[c] > 0
        \/ \E c \in DOMAIN rng : rng[c] > 0

FirstDatedPositions ==
    LET m == MergedInput
    IN  {p \in 1..Len(m.rows) :
            /\ \A q \in 1..(p - 1) : m.rows[q][pk_col] # m.rows[p][pk_col]
            /\ ParsesAsDate(m.rows[p][od_col])}

\* C20: the returned records are exactly the merged input records that are
\* the first occurrence of their key and whose order date parses, in merged
\* order; a key whose first occurrence has an unparseable order date is
\* absent from the result even when a later record of the key has a valid
\* order date.
C20_FirstOccurrenceThenDateDrop ==
    (pc = "done" /\ od_col # None) =>
      LET m == MergedInput
          n == Len(ret.rows)
      IN  /\ n = Cardinality(FirstDatedPositions)
          /\ \A i \in 1..n : ret.index[i] + 1 \in FirstDatedPositions
          /\ \A i, j \in 1..n : i < j => ret.index[i] < ret.index[j]
          /\ \A p \in 1..Len(m.rows) :
                (/\ \A q \in 1..(p - 1) : m.rows[q][pk_col] # m.rows[p][pk_col]
                 /\ ~ParsesAsDate(m.rows[p][od_col]))
                => \A q \in 1..Len(m.rows) :
                      m.rows[q][pk_col] = m.rows[p][pk_col]
                         => \A i \in 1..n : ret.index[i] # q - 1

\* a key is first met with an unparseable order date and met again with a
\* valid one; the result holds other records and none of that key
C20_Witness ==
    /\ pc = "done"
    /\ od_col # None
    /\ Len(ret.rows) >= 1
    /\ \E p, q \in 1..Len(MergedInput.rows) :
          /\ p < q
          /\ p \notin FirstDatedPositions
          /\ \A r \in 1..(p - 1) :
                MergedInput.rows[r][pk_col] # MergedInput.rows[p][pk_col]
          /\ MergedInput.rows[q][pk_col] = MergedInput.rows[p][pk_col]
          /\ ParsesAsDate(MergedInput.rows[q][od_col])
          /\ \A i \in 1..Len(ret.rows) : ret.index[i] \notin {p - 1, q - 1}

(***************************************************************************)
(* Properties of load_to_warehouse.                                        *)
(***************************************************************************)
\* the loader state of the design a position of the run belongs to: while
\* the dimension tables are being filled the run is still in Reset
DesignState(state) ==
    IF state \in {"dim_date", "dim_country", "dim_item"} THEN "Reset" ELSE state
DesignOrder ==
    <<"Uninitialized", "SchemaEnsured", "Reset", "DimensionsLoaded",
      "FactLoaded", "Complete">>
Inserted(t) == Len(db'.rows[t]) > Len(db.rows[t])

\* C12: a run passes through Uninitialized, SchemaEnsured, Reset,
\* DimensionsLoaded, FactLoaded, Complete in this order, never skipping or
\* reordering one (it may stop early when a step raises); dimension rows
\* are inserted only after the reset and before DimensionsLoaded, fact rows
\* only from DimensionsLoaded, and the analytical queries run only from
\* FactLoaded.
C12_LoaderStateOrder ==
    [][/\ DesignState(pc') # DesignState(pc) =>
            \/ \E i \in 1..(Len(DesignOrder) - 1) :
                  DesignState(pc) = DesignOrder[i] /\ pc' = DesignOrder[i + 1]
            \/ pc' = "Aborted" /\ pc # "Complete"
            \/ pc \in {"Complete", "Aborted"} /\ pc' = "Uninitialized"
       /\ \A t \in Range(DimTables) : Inserted(t) => DesignState(pc) = "Reset"
       /\ Inserted("fact_sales") => pc = "DimensionsLoaded"
       /\ (stdout' # stdout /\ stdout' # <<>>) => pc = "FactLoaded"
       /\ pc' = "Complete" => Len(stdout') = Len(QueryNames)
      ]_vars

\* a second run completed with rows in every table
C12_Witness ==
    /\ pc = "Complete"
    /\ run.n = 2
    /\ \A t \in TableNames : db.rows[t] # <<>>

\* the natural keys of a dimension that occur in the records
NaturalKeys(df, t) ==
    IF Range(DimColumns(t)) \subseteq df.columns
    THEN {[k \in Range(UniqueKey(t)) |-> df.rows[i][k]] : i \in 1..Len(df.rows)}
    ELSE {}
\* the natural keys of the rows of a dimension table
StoredKeys(store, t) ==
    {[k \in Range(UniqueKey(t)) |-> store.rows[t][i][k]] :
        i \in 1..Len(store.rows[t])}
\* every row of the table was inserted after the last reset
OfThisRun(t) ==
    \A i \in 1..Len(db.rows[t]) :
       db.rows[t][i][AutoIncrementColumn(t)].n >= run.base[t]

\* C13: however many times the full load has run on the same records, a
\* completed run leaves each dimension table with exactly one row per
\* distinct natural key of the records and the fact table with the rows of
\* that run only, one per record; no run fails on a constraint.
C13_RepeatedLoadIsIdempotent ==
    /\ raised # "IntegrityError"
    /\ pc = "Complete" =>
         /\ \A t \in Range(DimTables) :
               /\ StoredKeys(db, t) = NaturalKeys(args.df_transformed, t)
               /\ Len(db.rows[t]) = Cardinality(NaturalKeys(args.df_transformed, t))
               /\ OfThisRun(t)
         /\ Len(db.rows["fact_sales"]) = Len(args.df_transformed.rows)
         /\ OfThisRun("fact_sales")

\* the second run completed after a first run that had filled the tables;
\* the country dimension holds the two countries of the records
C13_Witness ==
    /\ pc = "Complete"
    /\ run.n = 2
    /\ \A t \in TableNames : run.base[t] > 1
    /\ Len(db.rows["dim_country"]) = 2
    /\ Len(db.rows["fact_sales"]) = 2

\* a natural key of the second record set is in the table the first call
\* filled
KeyAlreadyPresent(t) ==
    NaturalKeys(args.second, t) \cap NaturalKeys(args.first, t) # {}

\* C14: load_dimensions, given records some of whose natural keys are
\* already in a dimension table, raises nothing, leaves each table with one
\* row per natural key of the two record sets, and returns lookup tables
\* that map every natural key of its records to exactly one surrogate key.
C14_SkipsKeysAlreadyPresent ==
    (pc = "dims_return_again" /\ \E t \in Range(DimTables) : KeyAlreadyPresent(t))
    => /\ raised = ""
       /\ \A t \in Range(DimTables) :
             /\ StoredKeys(db, t)
                  = NaturalKeys(args.first, t) \cup NaturalKeys(args.second, t)
             /\ Len(db.rows[t]) = Cardinality(StoredKeys(db, t))
             /\ \A k \in NaturalKeys(args.second, t) :
                   /\ t \in DOMAIN ret
                   /\ Cardinality({i \in 1..Len(ret[t].rows) :
                                     \A c \in DOMAIN k : ret[t].rows[i][c] = k[c]}) = 1

\* C16: load_fact_sales, given records that have the natural-key columns of
\* the dimension frames, inserts one fact row per record and raises nothing;
\* a record whose natural key is in no row of a dimension frame gets a
\* null surrogate key for that dimension, a record whose key is in a row
\* gets the key of that row.
C16_UnmatchedKeyGivesNull ==
    (pc = "fact_return" /\ ~MissingJoinKey(args.second, dim_frames)) =>
      LET df == args.second
          fact == db.rows["fact_sales"]
      IN  /\ raised = ""
          /\ Len(fact) = Len(df.rows)
          /\ \A i \in 1..Len(fact) :
             \A t \in DOMAIN dim_frames :
                LET pk == AutoIncrementColumn(t)
                    found == {j \in 1..Len(dim_frames[t].rows) :
                                \A k \in Range(UniqueKey(t)) :
                                   dim_frames[t].rows[j][k] = df.rows[i][k]}
                IN  Range(UniqueKey(t)) \subseteq df.columns =>
                      IF found = {} THEN IsNull(fact[i][pk])
                      ELSE \E j \in found : fact[i][pk] = dim_frames[t].rows[j][pk]

\* a record with a country and an item the dimension frames do not hold is
\* inserted next to a record they resolve
C16_Witness ==
    /\ pc = "fact_return"
    /\ raised = ""
    /\ \E i, j \in 1..Len(db.rows["fact_sales"]) :
          /\ IsNull(db.rows["fact_sales"][i][country_id])
          /\ IsNull(db.rows["fact_sales"][i][item_id])
          /\ NotNa(db.rows["fact_sales"][i][date_id])
          /\ NotNa(db.rows["fact_sales"][j][country_id])

\* C15: after load_to_warehouse completes, every record has produced
\* exactly one fact_sales row, in record order, and for each dimension
\* whose natural-key columns the records have, the surrogate key of that
\* row is non-null and is the key of the dimension row whose natural key is
\* the record's.
C15_FactKeysResolve ==
    pc = "Complete" =>
      LET df == args.df_transformed
          fact == db.rows["fact_sales"]
      IN  /\ Len(fact) = Len(df.rows)
          /\ \A i \in 1..Len(fact) :
                /\ fact[i][order_id] = SqlValue(order_id, df.rows[i][order_id])
                /\ \A t \in Range(DimTables) :
                      Range(DimColumns(t)) \subseteq df.columns =>
                        LET pk == AutoIncrementColumn(t)
                            own == {j \in 1..Len(db.rows[t]) :
                                      db.rows[t][j][pk] = fact[i][pk]}
                        IN  /\ NotNa(fact[i][pk])
                            /\ Cardinality(own) = 1
                            /\ \A j \in own : \A k \in Range(UniqueKey(t)) :
                                  db.rows[t][j][k] = df.rows[i][k]

\* two records of the same country in different regions got different
\* country keys, and the later date got the larger date key although its
\* record comes first
C15_Witness ==
    /\ pc = "Complete"
    /\ Len(db.rows["fact_sales"]) = 2
    /\ LET f == db.rows["fact_sales"]
           df == args.df_transformed
       IN  /\ df.rows[1][country] = df.rows[2][country]
           /\ f[1][country_id] # f[2][country_id]
           /\ f[1][date_id].n > f[2][date_id].n
           /\ NotNa(f[1][channel_id])

\* C17: a query of run_analytic_queries that fails changes nothing in the
\* store: the dimension and fact rows of the run stay exactly as loaded,
\* one fact row per record.
C17_QueryFailureKeepsLoad ==
    [][(pc = "FactLoaded" /\ raised' # "") =>
          /\ db' = db
          /\ dim_frames' = dim_frames
          /\ Len(db'.rows["fact_sales"]) = Len(args.df_transformed.rows)
          /\ \A t \in Range(DimTables) :
                StoredKeys(db', t) = NaturalKeys(args.df_transformed, t)
      ]_vars

\* the fourth query failed after three had run; the loaded rows are there
C17_Witness ==
    /\ pc = "Aborted"
    /\ run.failed_in = "FactLoaded"
    /\ Len(stdout) = 3
    /\ db.rows["fact_sales"] # <<>>
    /\ db.rows["dim_date"] # <<>>

\* the position, in the order of the load, of the table a state is about
FilledBefore(t, state) ==
    LET pos(x) == CHOOSE i \in 1..Len(LoaderStates) : LoaderStates[i] = x
        done == CASE t = "dim_date" -> "dim_date"
                  [] t = "dim_country" -> "dim_country"
                  [] t = "dim_item" -> "dim_item"
                  [] t = "dim_channel" -> "DimensionsLoaded"
                  [] t = "fact_sales" -> "FactLoaded"
    IN  pos(done) <= pos(state)
AfterReset == {"Reset", "dim_date", "dim_country", "dim_item", "DimensionsLoaded"}

\* C18: when a dimension insert or the fact insert fails after the reset,
\* the run is aborted: no later step runs, nothing is retried or rolled
\* back.  The store holds no row of an earlier run; the tables filled
\* before the failure hold the rows of this run, the others are empty.
C18_FailureAfterReset ==
    /\ [](( raised # "" /\ run.failed_in \in AfterReset) =>
            /\ pc = "Aborted"
            /\ \A t \in TableNames :
                  /\ OfThisRun(t)
                  /\ IF FilledBefore(t, run.failed_in)
                     THEN StoredKeys(db, t) = NaturalKeys(args.df_transformed, t)
                     ELSE db.rows[t] = <<>>)
    /\ [][(pc \in AfterReset /\ raised' # "") => db' = db]_vars
    /\ [][pc = "Aborted" => (pc' = "Uninitialized" /\ db' = db)]_vars

\* the second run failed at the country dimension: the date dimension is
\* filled, the other tables are empty, the rows of the first run are gone
C18_Witness ==
    /\ pc = "Aborted"
    /\ run.n = 2
    /\ run.failed_in = "dim_date"
    /\ run.base["fact_sales"] > 1
    /\ db.rows["dim_date"] # <<>>
    /\ db.rows["dim_country"] = <<>>
    /\ db.rows["fact_sales"] = <<>>

\* C19: nothing makes the dashboard read wait for the load.  A read between
\* the reset and the fact load returns no row, also when the dimension
\* tables are already filled, although a read before the run returns the
\* rows of the previous run and a read after the fact load returns one row
\* per record.
C19_ReadSeesRefreshInProgress ==
    /\ snapshot = None => ENABLED DashboardRead
    /\ snapshot # None =>
         LET df == args.df_transformed
             whole == Len(snapshot.data.rows) = Len(df.rows)
         IN  /\ snapshot.at \in AfterReset =>
                  /\ snapshot.data.source = "dw_sales"
                  /\ snapshot.data.rows = <<>>
             /\ snapshot.at = "DimensionsLoaded" =>
                  \A t \in Range(DimTables) :
                     StoredKeys(snapshot.store, t) = NaturalKeys(df, t)
             /\ snapshot.at \in {"FactLoaded", "Complete"} => whole
             /\ (snapshot.run > 1 /\ snapshot.at \in {"Uninitialized", "SchemaEnsured"})
                  => whole

\* during the second run the read found the dimension tables filled and no
\* fact row; the run then completed
C19_Witness ==
    /\ snapshot # None
    /\ snapshot.run = 2
    /\ snapshot.at = "DimensionsLoaded"
    /\ snapshot.data.rows = <<>>
    /\ \A t \in Range(DimTables) : snapshot.store.rows[t] # <<>>
    /\ snapshot.store.auto_increment["fact_sales"] > 1
    /\ pc = "Complete"
    /\ db.rows["fact_sales"] # <<>>

====
